---- MODULE Spec2Model ----
(***************************************************************************)
(* A model of the mapbuilder converters: the feature classification of     *)
(* parse_osm_data (osm_to_gng_direct.py and osm_to_euroscope.py, run side  *)
(* by side on the same element list), the name normalizer, the             *)
(* decimal-degree to DMS transcoder, write_lines_file, convert_to_topsky,  *)
(* the main of the three converters and the main of batch_process.py.      *)
(*                                                                         *)
(* A Python str is a sequence of one-character strings, so that replace,   *)
(* formatting and the ordering used by sort are computed and not assumed.  *)
(* A tag mapping is a function from the tag keys present to their values.  *)
(***************************************************************************)
EXTENDS Integers, Sequences, FiniteSets, TLC

VARIABLES
    elements,   \* osm_data['elements']: the list parse_osm_data is called with
    pc,         \* position of parse_osm_data: first_pass, second_pass, sort, done
    i,          \* index (1-based) of the element the current loop is at
    nodes,      \* the node index `nodes` of each converter
    features,   \* the `features` dictionary of each converter
    dms_in,     \* the arguments of a decimal_to_dms call
    dms_out,    \* the token decimal_to_dms returned
    norm_in,    \* the argument of a normalize_hangar_name call
    norm_out,   \* the text normalize_hangar_name returned
    line_features,  \* features['lines'] as given to write_lines_file
    lines_file,     \* the lines of the file write_lines_file wrote
    topsky_file,    \* the lines of the file convert_to_topsky wrote
    converter,      \* the script whose main runs: kml, gng or es
    fetch,          \* what the request to the Overpass API comes to
    printed,        \* the messages main has printed, in order
    files,          \* the output files main has opened for writing
    converted,      \* the conversion has returned its result
    exit_status,    \* the status the run ended with
    topsky_args,    \* the color and polygon_type convert_to_topsky is called with
    exits,          \* the exit status of the converter subprocess of each airport
    invoked,        \* the ICAO codes process_airport has been called with, in order
    success_count,  \* success_count of batch_process.main
    failed          \* failed of batch_process.main

parseVars == <<elements, pc, i, nodes, features>>
dmsVars == <<dms_in, dms_out>>
normVars == <<norm_in, norm_out>>
fileVars == <<line_features, lines_file, topsky_file, topsky_args>>
mainVars == <<converter, fetch, printed, files, converted, exit_status>>
batchVars == <<exits, invoked, success_count, failed>>
toolVars == <<normVars, fileVars, mainVars, batchVars>>
vars == <<elements, pc, i, nodes, features, dms_in, dms_out, norm_in, norm_out,
          line_features, lines_file, topsky_file,
          converter, fetch, printed, files, converted, exit_status,
          topsky_args, exits, invoked, success_count, failed>>

(***************************************************************************)
(* Text                                                                    *)
(***************************************************************************)

\* The characters that occur in names, in code point order (Python compares
\* str values code point by code point).
Alphabet ==
    <<" ", "1", "2", "3", "?", "A", "B", "G", "H", "a", "b", "d", "e", "g",
      "h", "i", "k", "l", "m", "n", "o", "p", "r", "s", "t", "u", "w", "x", "y">>

Ord(c) == CHOOSE k \in 1..Len(Alphabet) : Alphabet[k] = c

RECURSIVE StrLess(_, _)
\* a < b on Python str values
StrLess(a, b) ==
    IF b = <<>> THEN FALSE
    ELSE IF a = <<>> THEN TRUE
    ELSE IF a[1] = b[1] THEN StrLess(Tail(a), Tail(b))
    ELSE Ord(a[1]) < Ord(b[1])

\* s.startswith(p)
StartsWith(s, p) == Len(s) >= Len(p) /\ SubSeq(s, 1, Len(p)) = p

RECURSIVE Replace(_, _, _)
\* s.replace(old, new) for a non-empty old: every non-overlapping occurrence,
\* found left to right
Replace(s, old, new) ==
    IF Len(s) < Len(old) THEN s
    ELSE IF StartsWith(s, old)
         THEN new \o Replace(SubSeq(s, Len(old) + 1, Len(s)), old, new)
         ELSE <<s[1]>> \o Replace(Tail(s), old, new)

\* `a or b` on two str values
Or(a, b) == IF a # <<>> THEN a ELSE b

S_Hanger == <<"H", "a", "n", "g", "e", "r">>
S_hanger == <<"h", "a", "n", "g", "e", "r">>
S_Hagner == <<"H", "a", "g", "n", "e", "r">>
S_hagner == <<"h", "a", "g", "n", "e", "r">>
S_Hangar == <<"H", "a", "n", "g", "a", "r">>
S_hangar == <<"h", "a", "n", "g", "a", "r">>
S_runway == <<"r", "u", "n", "w", "a", "y">>
S_taxiway == <<"t", "a", "x", "i", "w", "a", "y">>
S_taxilane == <<"t", "a", "x", "i", "l", "a", "n", "e">>
S_apron == <<"a", "p", "r", "o", "n">>
S_wood == <<"w", "o", "o", "d">>
S_woods == <<"w", "o", "o", "d", "s">>
S_grass == <<"g", "r", "a", "s", "s">>
S_grassland == <<"g", "r", "a", "s", "s", "l", "a", "n", "d">>
S_water == <<"w", "a", "t", "e", "r">>
S_gate == <<"g", "a", "t", "e">>
S_parking_position ==
    <<"p", "a", "r", "k", "i", "n", "g", "_", "p", "o", "s", "i", "t", "i", "o", "n">>
S_stand == <<"s", "t", "a", "n", "d">>
S_question == <<"?">>

\* normalize_hangar_name without the replacements of Hagner and hagner
normalize_hangar_name_TwoSpellings(name) ==
    IF name = <<>> THEN name
    ELSE Replace(Replace(name, S_Hanger, S_Hangar), S_hanger, S_hangar)

\* normalize_hangar_name with 'Hagner' replaced by 'Hanger'
normalize_hangar_name_HagnerToHanger(name) ==
    IF name = <<>> THEN name
    ELSE Replace(Replace(Replace(Replace(name,
             S_Hanger, S_Hangar), S_hanger, S_hangar),
             S_Hagner, S_Hanger), S_hagner, S_hangar)

\* normalize_hangar_name
normalize_hangar_name(name) ==
    IF name = <<>> THEN name
    ELSE Replace(Replace(Replace(Replace(name,
             S_Hanger, S_Hangar), S_hanger, S_hangar),
             S_Hagner, S_Hangar), S_hagner, S_hangar)

(***************************************************************************)
(* Tags                                                                    *)
(***************************************************************************)

NoTags == [k \in {} |-> <<>>]

\* tags.get(k) == v
TagIs(tags, k, v) == k \in DOMAIN tags /\ tags[k] = v

\* the truth value of tags.get(k): the key is present with a non-empty value
Truthy(tags, k) == k \in DOMAIN tags /\ tags[k] # <<>>

\* tags.get(k, default)
Get(tags, k, default) == IF k \in DOMAIN tags THEN tags[k] ELSE default

\* tags = element.get('tags', {})
ElementTags(element) == IF "tags" \in DOMAIN element THEN element.tags ELSE NoTags

\* The first pass raises KeyError on this element: element['type'], and for a node
\* element['id'], element['lat'], element['lon']
FirstPassRaises(element) ==
    IF "type" \notin DOMAIN element THEN TRUE
    ELSE element.type = "node" /\ ~({"id", "lat", "lon"} \subseteq DOMAIN element)

\* The second pass raises KeyError on this element: element['nodes'] of a way
SecondPassRaises(element) ==
    IF "type" \notin DOMAIN element THEN TRUE
    ELSE element.type = "way" /\ "nodes" \notin DOMAIN element

(***************************************************************************)
(* parse_osm_data: the parts both converters share                         *)
(***************************************************************************)

\* One entry of features['lines'] or features['areas']
Feature(type, color, coords, name, sort_order) ==
    [type |-> type, color |-> color, coords |-> coords, name |-> name,
     sort_order |-> sort_order]

\* One entry of features['points'] (GNG) or features['labels'] (EuroScope)
Label(type, ref, lat, lon) == [type |-> type, ref |-> ref, lat |-> lat, lon |-> lon]

\* The first pass indexing only the nodes that carry tags
CollectNode_TaggedOnly(index, element) ==
    IF element.type = "node" /\ ElementTags(element) # NoTags
    THEN (element.id :> [lat |-> element.lat, lon |-> element.lon]) @@ index
    ELSE index

\* First pass, one element: nodes[element['id']] = {'lat': ..., 'lon': ...}
CollectNode(index, element) ==
    IF element.type = "node"
    THEN (element.id :> [lat |-> element.lat, lon |-> element.lon]) @@ index
    ELSE index

RECURSIVE BuildCoords_StopAtMissing(_, _)
\* The coordinate list with `break` at an id that is not in the index
BuildCoords_StopAtMissing(way_nodes, index) ==
    IF way_nodes = <<>> \/ way_nodes[1] \notin DOMAIN index THEN <<>>
    ELSE <<<<index[way_nodes[1]].lon, index[way_nodes[1]].lat>>>>
            \o BuildCoords_StopAtMissing(Tail(way_nodes), index)

\* Build coordinate list: the (lon, lat) of every referenced id found in the index
BuildCoords(way_nodes, index) ==
    LET found == SelectSeq(way_nodes, LAMBDA n : n \in DOMAIN index)
    IN  [k \in 1..Len(found) |-> <<index[found[k]].lon, index[found[k]].lat>>]

\* is_closed = element['nodes'][0] == element['nodes'][-1]
IsClosed(way_nodes) == way_nodes[1] = way_nodes[Len(way_nodes)]

\* name = tags.get('name', tags.get('ref', ''))
WayName(tags) == Get(tags, "name", Get(tags, "ref", <<>>))

\* The hangar name without the normalizer: name or 'Hangar'
HangarName_Raw(name) == Or(name, S_Hangar)

\* The hangar name without the fallback: normalize_hangar_name(name)
HangarName_NoFallback(name) == normalize_hangar_name(name)

\* hangar_name = normalize_hangar_name(name) or 'Hangar'
HangarName(name) == Or(normalize_hangar_name(name), S_Hangar)

\* The building name falling back to the kind instead of the tag value
BuildingName_Kind(name, building) ==
    Or(normalize_hangar_name(name), <<"b", "u", "i", "l", "d", "i", "n", "g">>)

\* building_name = normalize_hangar_name(name) or building
BuildingName(name, building) == Or(normalize_hangar_name(name), building)

\* aeroway == 'hangar' or building == 'hangar'
HangarRule(tags) == TagIs(tags, "aeroway", S_hangar) \/ TagIs(tags, "building", S_hangar)

\* natural == 'grassland' or landuse == 'grass'
GrassRule(tags) == TagIs(tags, "natural", S_grassland) \/ TagIs(tags, "landuse", S_grass)

\* The water rule testing the presence of the keys: 'water' in tags
WaterRule_KeyPresent(tags) ==
    TagIs(tags, "natural", S_water) \/ "water" \in DOMAIN tags \/ "waterway" \in DOMAIN tags

\* natural == 'water' or water or waterway
WaterRule(tags) ==
    TagIs(tags, "natural", S_water) \/ Truthy(tags, "water") \/ Truthy(tags, "waterway")

\* The label rule without the gate: aeroway in ['parking_position', 'stand']
IsLabelNode_NoGate(tags) ==
    "aeroway" \in DOMAIN tags /\ tags["aeroway"] \in {S_parking_position, S_stand}

\* aeroway in ['gate', 'parking_position', 'stand']
IsLabelNode(tags) ==
    "aeroway" \in DOMAIN tags /\ tags["aeroway"] \in {S_gate, S_parking_position, S_stand}

\* The label text by truth value: tags.get('ref') or tags.get('name') or '?'
LabelRef_Truthy(tags) == Or(Get(tags, "ref", <<>>), Or(Get(tags, "name", <<>>), S_question))

\* ref = tags.get('ref', tags.get('name', '?'))
LabelRef(tags) == Get(tags, "ref", Get(tags, "name", S_question))

\* The label a node element appends, if any
NodeLabels(element) ==
    IF IsLabelNode(ElementTags(element))
    THEN <<Label(ElementTags(element)["aeroway"], LabelRef(ElementTags(element)), element.lat, element.lon)>>
    ELSE <<>>

\* The sort key without the priority: x['name'] < y['name']
FeatureKeyLess_NameOnly(x, y) == StrLess(x.name, y.name)

\* (x['sort_order'], x['name']) < (y['sort_order'], y['name'])
FeatureKeyLess(x, y) ==
    \/ x.sort_order < y.sort_order
    \/ x.sort_order = y.sort_order /\ StrLess(x.name, y.name)

\* x['ref'] < y['ref']
LabelKeyLess(x, y) == StrLess(x.ref, y.ref)

\* The sort that is not stable: entries with an equal key come out in reverse order
SortFeatureList_TiesReversed(s) ==
    LET n == Len(s)
        Before(k, j) == FeatureKeyLess(s[k], s[j]) \/ (~FeatureKeyLess(s[j], s[k]) /\ k > j)
        Pos(j) == Cardinality({k \in 1..n : Before(k, j)}) + 1
    IN  [p \in 1..n |-> s[CHOOSE j \in 1..n : Pos(j) = p]]

\* list.sort(key=lambda x: (x['sort_order'], x['name'])): the stable sort, every
\* entry placed after the entries with a smaller key and the earlier ones with an equal key
SortFeatureList(s) ==
    LET n == Len(s)
        Before(k, j) == FeatureKeyLess(s[k], s[j]) \/ (~FeatureKeyLess(s[j], s[k]) /\ k < j)
        Pos(j) == Cardinality({k \in 1..n : Before(k, j)}) + 1
    IN  [p \in 1..n |-> s[CHOOSE j \in 1..n : Pos(j) = p]]

\* list.sort(key=lambda x: x['ref']): the stable sort
SortLabelList(s) ==
    LET n == Len(s)
        Before(k, j) == LabelKeyLess(s[k], s[j]) \/ (~LabelKeyLess(s[j], s[k]) /\ k < j)
        Pos(j) == Cardinality({k \in 1..n : Before(k, j)}) + 1
    IN  [p \in 1..n |-> s[CHOOSE j \in 1..n : Pos(j) = p]]

(***************************************************************************)
(* parse_osm_data of osm_to_gng_direct.py                                  *)
(***************************************************************************)

\* The centerline rules without `and not is_closed`
LineFeatureGng_AnyClosure(tags, coords, is_closed, name) ==
    IF TagIs(tags, "aeroway", S_taxiway)
    THEN <<Feature(S_taxiway, "TaxiwayYellow", coords, Or(name, S_taxiway), 1)>>
    ELSE IF TagIs(tags, "aeroway", S_taxilane)
    THEN <<Feature(S_taxilane, "TaxiwayGrey", coords, Or(name, S_taxilane), 2)>>
    ELSE IF TagIs(tags, "aeroway", S_runway)
    THEN <<Feature(S_runway, "RunwayBorder", coords, Or(name, S_runway), 0)>>
    ELSE <<>>

\* The centerline rules with an open apron way taken as an outline
LineFeatureGng_OpenApron(tags, coords, is_closed, name) ==
    IF TagIs(tags, "aeroway", S_taxiway) /\ ~is_closed
    THEN <<Feature(S_taxiway, "TaxiwayYellow", coords, Or(name, S_taxiway), 1)>>
    ELSE IF TagIs(tags, "aeroway", S_taxilane) /\ ~is_closed
    THEN <<Feature(S_taxilane, "TaxiwayGrey", coords, Or(name, S_taxilane), 2)>>
    ELSE IF TagIs(tags, "aeroway", S_runway) /\ ~is_closed
    THEN <<Feature(S_runway, "RunwayBorder", coords, Or(name, S_runway), 0)>>
    ELSE IF TagIs(tags, "aeroway", S_apron) /\ ~is_closed
    THEN <<Feature(S_apron, "ApronSurface", coords, Or(name, S_apron), 0)>>
    ELSE <<>>

\* The rules on centerlines, in the order the GNG converter tests them
LineFeatureGng(tags, coords, is_closed, name) ==
    IF TagIs(tags, "aeroway", S_taxiway) /\ ~is_closed
    THEN <<Feature(S_taxiway, "TaxiwayYellow", coords, Or(name, S_taxiway), 1)>>
    ELSE IF TagIs(tags, "aeroway", S_taxilane) /\ ~is_closed
    THEN <<Feature(S_taxilane, "TaxiwayGrey", coords, Or(name, S_taxilane), 2)>>
    ELSE IF TagIs(tags, "aeroway", S_runway) /\ ~is_closed
    THEN <<Feature(S_runway, "RunwayBorder", coords, Or(name, S_runway), 0)>>
    ELSE <<>>

\* The rules on areas, reached when no centerline rule applied
AreaFeatureGng(tags, coords, name) ==
    IF TagIs(tags, "aeroway", S_apron)
    THEN <<Feature(S_apron, "ApronSurface", coords, Or(name, S_apron), 0)>>
    ELSE IF HangarRule(tags)
    THEN <<Feature(S_hangar, "Building", coords, HangarName(name), 1)>>
    ELSE IF Truthy(tags, "building")
    THEN <<Feature(<<"b", "u", "i", "l", "d", "i", "n", "g">>, "Building", coords,
                   BuildingName(name, tags["building"]), 2)>>
    ELSE IF TagIs(tags, "natural", S_wood)
    THEN <<Feature(S_wood, "GrasSurface", coords, S_woods, 3)>>
    ELSE IF GrassRule(tags)
    THEN <<Feature(S_grass, "GrasSurface", coords, S_grass, 3)>>
    ELSE IF WaterRule(tags)
    THEN <<Feature(S_water, "GrasSurface", coords, S_water, 4)>>
    ELSE <<>>

\* The ladder with `if aeroway == 'apron'` in place of `elif`
WayFeaturesGng_NoElif(tags, coords, is_closed, name) ==
    [lines |-> LineFeatureGng(tags, coords, is_closed, name),
     areas |-> AreaFeatureGng(tags, coords, name)]

\* The if/elif ladder on one way: what it appends to lines and to areas
WayFeaturesGng(tags, coords, is_closed, name) ==
    LET line == LineFeatureGng(tags, coords, is_closed, name)
    IN  [lines |-> line,
         areas |-> IF line # <<>> THEN <<>> ELSE AreaFeatureGng(tags, coords, name)]

\* The second pass with closure decided on the resolved coordinates
ProcessGng_ClosedByCoords(fs, index, element) ==
    IF element.type = "way"
    THEN LET coords == BuildCoords(element.nodes, index)
         IN  IF coords = <<>> THEN fs
             ELSE LET add == WayFeaturesGng(ElementTags(element), coords,
                                            coords[1] = coords[Len(coords)],
                                            WayName(ElementTags(element)))
                  IN  [fs EXCEPT !.lines = @ \o add.lines, !.areas = @ \o add.areas]
    ELSE IF element.type = "node"
    THEN [fs EXCEPT !.points = @ \o NodeLabels(element)]
    ELSE fs

\* The second pass without `if not coords: continue`
ProcessGng_NoSkip(fs, index, element) ==
    IF element.type = "way"
    THEN LET coords == BuildCoords(element.nodes, index)
             add == WayFeaturesGng(ElementTags(element), coords,
                                   IsClosed(element.nodes), WayName(ElementTags(element)))
         IN  [fs EXCEPT !.lines = @ \o add.lines, !.areas = @ \o add.areas]
    ELSE IF element.type = "node"
    THEN [fs EXCEPT !.points = @ \o NodeLabels(element)]
    ELSE fs

\* Second pass, one element
ProcessGng(fs, index, element) ==
    IF element.type = "way"
    THEN LET coords == BuildCoords(element.nodes, index)
         IN  IF coords = <<>> THEN fs
             ELSE LET add == WayFeaturesGng(ElementTags(element), coords,
                                            IsClosed(element.nodes), WayName(ElementTags(element)))
                  IN  [fs EXCEPT !.lines = @ \o add.lines, !.areas = @ \o add.areas]
    ELSE IF element.type = "node"
    THEN [fs EXCEPT !.points = @ \o NodeLabels(element)]
    ELSE fs

\* Sort features by type within each category
SortGng(fs) ==
    [lines |-> SortFeatureList(fs.lines), areas |-> SortFeatureList(fs.areas),
     points |-> SortLabelList(fs.points)]

(***************************************************************************)
(* parse_osm_data of osm_to_euroscope.py                                   *)
(***************************************************************************)

\* The centerline rules with the runway test lacking `and not is_closed`
LineFeatureEs_RunwayAnyClosure(tags, coords, is_closed, name) ==
    IF TagIs(tags, "aeroway", S_runway)
    THEN <<Feature(S_runway, "COLOR_RunwayBorder", coords, Or(name, S_runway), 0)>>
    ELSE IF TagIs(tags, "aeroway", S_taxiway) /\ ~is_closed
    THEN <<Feature(S_taxiway, "COLOR_TaxiwayYellow", coords, Or(name, S_taxiway), 1)>>
    ELSE IF TagIs(tags, "aeroway", S_taxilane) /\ ~is_closed
    THEN <<Feature(S_taxilane, "COLOR_TaxiwayGrey", coords, Or(name, S_taxilane), 2)>>
    ELSE <<>>

\* The rules on centerlines, in the order the EuroScope converter tests them
LineFeatureEs(tags, coords, is_closed, name) ==
    IF TagIs(tags, "aeroway", S_runway) /\ ~is_closed
    THEN <<Feature(S_runway, "COLOR_RunwayBorder", coords, Or(name, S_runway), 0)>>
    ELSE IF TagIs(tags, "aeroway", S_taxiway) /\ ~is_closed
    THEN <<Feature(S_taxiway, "COLOR_TaxiwayYellow", coords, Or(name, S_taxiway), 1)>>
    ELSE IF TagIs(tags, "aeroway", S_taxilane) /\ ~is_closed
    THEN <<Feature(S_taxilane, "COLOR_TaxiwayGrey", coords, Or(name, S_taxilane), 2)>>
    ELSE <<>>

AreaFeatureEs(tags, coords, name) ==
    IF TagIs(tags, "aeroway", S_apron)
    THEN <<Feature(S_apron, "COLOR_ApronSurface", coords, Or(name, S_apron), 0)>>
    ELSE IF HangarRule(tags)
    THEN <<Feature(S_hangar, "COLOR_Building", coords, HangarName(name), 1)>>
    ELSE IF Truthy(tags, "building")
    THEN <<Feature(<<"b", "u", "i", "l", "d", "i", "n", "g">>, "COLOR_Building", coords,
                   BuildingName(name, tags["building"]), 2)>>
    ELSE IF TagIs(tags, "natural", S_wood)
    THEN <<Feature(S_wood, "COLOR_GrasSurface", coords, S_woods, 3)>>
    ELSE IF GrassRule(tags)
    THEN <<Feature(S_grass, "COLOR_GrasSurface", coords, S_grass, 3)>>
    ELSE IF WaterRule(tags)
    THEN <<Feature(S_water, "COLOR_GrasSurface", coords, S_water, 4)>>
    ELSE <<>>

\* The ladder with `if aeroway == 'apron'` in place of `elif`
WayFeaturesEs_NoElif(tags, coords, is_closed, name) ==
    [lines |-> LineFeatureEs(tags, coords, is_closed, name),
     areas |-> AreaFeatureEs(tags, coords, name)]

\* The if/elif ladder on one way: what it appends to lines and to areas
WayFeaturesEs(tags, coords, is_closed, name) ==
    LET line == LineFeatureEs(tags, coords, is_closed, name)
    IN  [lines |-> line,
         areas |-> IF line # <<>> THEN <<>> ELSE AreaFeatureEs(tags, coords, name)]

ProcessEs(fs, index, element) ==
    IF element.type = "way"
    THEN LET coords == BuildCoords(element.nodes, index)
         IN  IF coords = <<>> THEN fs
             ELSE LET add == WayFeaturesEs(ElementTags(element), coords,
                                           IsClosed(element.nodes), WayName(ElementTags(element)))
                  IN  [fs EXCEPT !.lines = @ \o add.lines, !.areas = @ \o add.areas]
    ELSE IF element.type = "node"
    THEN [fs EXCEPT !.labels = @ \o NodeLabels(element)]
    ELSE fs

SortEs(fs) ==
    [lines |-> SortFeatureList(fs.lines), areas |-> SortFeatureList(fs.areas),
     labels |-> SortLabelList(fs.labels)]

(***************************************************************************)
(* Inputs: the element lists parse_osm_data is run on                      *)
(***************************************************************************)

MaxTagKeys == 2   \* classification keys one way of WayPool carries at most
MaxElems == 3     \* length of the lists drawn from CompactPool

Node(id, lat, lon, tags) == [type |-> "node", id |-> id, lat |-> lat, lon |-> lon, tags |-> tags]

Way(id, way_nodes, tags) == [type |-> "way", id |-> id, nodes |-> way_nodes, tags |-> tags]

S_yes == <<"y", "e", "s">>
S_A == <<"A">>
S_A1 == <<"A", "1">>
S_B == <<"B">>
S_Hanger3 == <<"H", "a", "n", "g", "e", "r", " ", "3">>

ClassKeys == {"aeroway", "building", "natural", "landuse", "water", "waterway"}

\* The values each classification key takes in the inputs: every value the code
\* tests for, one it does not, and the empty string where the code tests truth
TagValues(k) ==
    CASE k = "aeroway" -> {S_runway, S_taxiway, S_taxilane, S_apron, S_hangar, S_gate}
      [] k = "building" -> {<<>>, S_hangar, S_yes}
      [] k = "natural" -> {S_wood, S_grassland, S_water}
      [] k = "landuse" -> {S_grass, S_wood}
      [] k = "water" -> {<<>>, S_yes}
      [] k = "waterway" -> {<<>>, S_yes}

TagMaps(K) ==
    {t \in [K -> UNION {TagValues(k) : k \in K}] : \A k \in K : t[k] \in TagValues(k)}

ClassTagSets ==
    UNION {TagMaps(K) : K \in {S \in SUBSET ClassKeys : Cardinality(S) <= MaxTagKeys}}

NameTagSets ==
    {NoTags,
     "name" :> S_Hanger3,
     "ref" :> S_A,
     ("name" :> <<>>) @@ ("ref" :> S_A),
     ("name" :> S_B) @@ ("ref" :> S_A)}

\* Node id sequences of a way; ids 1, 2, 3 are in BaseNodes, ids 4 and 5 in no input
NodeLists == {<<1, 2, 3>>, <<1, 2, 3, 1>>, <<4, 2, 4>>, <<4, 1, 2, 5>>, <<4, 5>>}

WayPool == {Way(7, ns, c @@ n) : ns \in NodeLists, c \in ClassTagSets, n \in NameTagSets}

\* Nodes 1 and 3 have different ids and the same position
BaseNodes == <<Node(1, 10, 20, NoTags), Node(2, 11, 21, NoTags), Node(3, 10, 20, NoTags)>>

NodeTagSets ==
    {a @@ r @@ n :
        a \in {NoTags} \cup {"aeroway" :> v : v \in {S_gate, S_parking_position, S_stand, S_apron}},
        r \in {NoTags, "ref" :> <<>>, "ref" :> S_A1},
        n \in {NoTags, "name" :> S_B}}

NodePool == {Node(3, p[1], p[2], t) : p \in {<<10, 20>>, <<12, 22>>}, t \in NodeTagSets}

CompactPool ==
    {Node(1, 10, 20, NoTags),
     Node(2, 11, 21, NoTags),
     Node(3, 12, 22, ("aeroway" :> S_gate) @@ ("ref" :> S_A1)),
     Node(1, 10, 20, ("aeroway" :> S_stand) @@ ("name" :> S_B)),
     Way(7, <<1, 2>>, "aeroway" :> S_runway),
     Way(7, <<1, 2>>, ("aeroway" :> S_taxiway) @@ ("ref" :> S_A)),
     Way(8, <<2, 1>>, ("aeroway" :> S_taxiway) @@ ("name" :> S_B)),
     Way(7, <<2, 1>>, "aeroway" :> S_taxilane),
     Way(7, <<1, 2, 1>>, "aeroway" :> S_apron),
     Way(7, <<1, 2, 1>>, ("building" :> S_hangar) @@ ("name" :> S_Hanger3)),
     Way(8, <<1, 2, 1>>, "building" :> S_yes),
     Way(7, <<1, 2, 1>>, "natural" :> S_wood),
     Way(7, <<1, 2, 1>>, "landuse" :> S_grass),
     Way(7, <<1, 2, 1>>, "natural" :> S_water)}

CompactLists == UNION {[1..n -> CompactPool] : n \in 0..MaxElems}

\* Elements of which two ways yield lines with the same sort key and two nodes
\* labels with the same ref, beside an open runway way of 2 nodes and its nodes
ScenarioPool ==
    {Node(1, 10, 20, NoTags),
     Node(2, 11, 21, NoTags),
     Node(3, 12, 22, ("aeroway" :> S_gate) @@ ("ref" :> S_A1)),
     Node(6, 13, 23, ("aeroway" :> S_stand) @@ ("ref" :> S_A1)),
     Way(7, <<1, 2>>, "aeroway" :> S_runway),
     Way(8, <<1, 2>>, ("aeroway" :> S_taxiway) @@ ("ref" :> S_A)),
     Way(9, <<2, 1>>, ("aeroway" :> S_taxiway) @@ ("name" :> S_A))}

\* the lists of four different elements of ScenarioPool, in every order
ScenarioLists ==
    {l \in [1..4 -> ScenarioPool] : \A j, k \in 1..4 : j # k => l[j] # l[k]}

\* the lists with one way of WayPool before or after the base nodes, the lists
\* with one node of NodePool, and the short lists over CompactPool
InputLists ==
    {BaseNodes \o <<w>> : w \in WayPool} \cup {<<w>> \o BaseNodes : w \in WayPool}
        \cup {<<n>> : n \in NodePool} \cup CompactLists \cup ScenarioLists

(***************************************************************************)
(* parse_osm_data as a state machine                                       *)
(***************************************************************************)

NoIndex == [k \in {} |-> [lat |-> 0, lon |-> 0]]

DmsIdle == [value |-> 0, is_latitude |-> TRUE]

\* no main is running
MainIdle ==
    /\ converter = "none"
    /\ fetch = "none"
    /\ printed = <<>>
    /\ files = {}
    /\ converted = FALSE
    /\ exit_status = "none"

\* color="AirspaceA", polygon_type="Boundary": the defaults of convert_to_topsky
TopskyDefaults == [color |-> "AirspaceA", polygon_type |-> "Boundary"]

\* batch_process.main is not running
BatchIdle ==
    /\ exits = <<>>
    /\ invoked = <<>>
    /\ success_count = 0
    /\ failed = <<>>

\* the parts of the state parse_osm_data does not touch, before any call
ToolsIdle ==
    /\ norm_in = <<>>
    /\ norm_out = <<>>
    /\ line_features = <<>>
    /\ lines_file = <<>>
    /\ topsky_file = <<>>
    /\ topsky_args = TopskyDefaults
    /\ MainIdle
    /\ BatchIdle

\* the state of parse_osm_data before any call of it
ParseIdle ==
    /\ elements = <<>>
    /\ i = 1
    /\ nodes = [gng |-> NoIndex, es |-> NoIndex]
    /\ features = [gng |-> [lines |-> <<>>, areas |-> <<>>, points |-> <<>>],
                   es |-> [lines |-> <<>>, areas |-> <<>>, labels |-> <<>>]]

Init ==
    /\ elements \in InputLists
    /\ pc = "first_pass"
    /\ i = 1
    /\ nodes = [gng |-> NoIndex, es |-> NoIndex]
    /\ features = [gng |-> [lines |-> <<>>, areas |-> <<>>, points |-> <<>>],
                   es |-> [lines |-> <<>>, areas |-> <<>>, labels |-> <<>>]]
    /\ dms_in = DmsIdle
    /\ dms_out = [es |-> <<>>, filters |-> <<>>]
    /\ ToolsIdle

\* First pass: collect all nodes
FirstPassStep ==
    /\ pc = "first_pass"
    /\ i <= Len(elements)
    /\ ~FirstPassRaises(elements[i])
    /\ nodes' = [gng |-> CollectNode(nodes.gng, elements[i]),
                 es |-> CollectNode(nodes.es, elements[i])]
    /\ i' = i + 1
    /\ UNCHANGED <<elements, pc, features>>
    /\ UNCHANGED dmsVars
    /\ UNCHANGED toolVars

\* The first loop is exhausted; the second begins
SecondPassStart ==
    /\ pc = "first_pass"
    /\ i > Len(elements)
    /\ pc' = "second_pass"
    /\ i' = 1
    /\ UNCHANGED <<elements, nodes, features>>
    /\ UNCHANGED dmsVars
    /\ UNCHANGED toolVars

\* Second pass: process ways and nodes with tags
SecondPassStep ==
    /\ pc = "second_pass"
    /\ i <= Len(elements)
    /\ ~SecondPassRaises(elements[i])
    /\ features' = [gng |-> ProcessGng(features.gng, nodes.gng, elements[i]),
                    es |-> ProcessEs(features.es, nodes.es, elements[i])]
    /\ i' = i + 1
    /\ UNCHANGED <<elements, pc, nodes>>
    /\ UNCHANGED dmsVars
    /\ UNCHANGED toolVars

\* The second loop is exhausted: the three sorts, and return features
SortAndReturn ==
    /\ pc = "second_pass"
    /\ i > Len(elements)
    /\ features' = [gng |-> SortGng(features.gng), es |-> SortEs(features.es)]
    /\ pc' = "done"
    /\ UNCHANGED <<elements, i, nodes>>
    /\ UNCHANGED dmsVars
    /\ UNCHANGED toolVars

Next == FirstPassStep \/ SecondPassStart \/ SecondPassStep \/ SortAndReturn

Spec == Init /\ [][Next]_vars

\* First pass, an element without a field the loop reads: KeyError leaves parse_osm_data
FirstPassRaise ==
    /\ pc = "first_pass"
    /\ i <= Len(elements)
    /\ FirstPassRaises(elements[i])
    /\ pc' = "raised"
    /\ UNCHANGED <<elements, i, nodes, features>>
    /\ UNCHANGED dmsVars
    /\ UNCHANGED toolVars

\* Second pass, a way without 'nodes': KeyError leaves parse_osm_data
SecondPassRaise ==
    /\ pc = "second_pass"
    /\ i <= Len(elements)
    /\ SecondPassRaises(elements[i])
    /\ pc' = "raised"
    /\ UNCHANGED <<elements, i, nodes, features>>
    /\ UNCHANGED dmsVars
    /\ UNCHANGED toolVars

MaxRawElems == 2   \* length of the lists drawn from RawPool

\* Elements as the data source may send them: complete ones, ones without a key
\* the code reads, and one of a type the code does not read
RawPool ==
    {Node(1, 10, 20, NoTags),
     Node(2, 11, 21, ("aeroway" :> S_gate) @@ ("ref" :> S_A1)),
     Way(7, <<1, 2>>, "aeroway" :> S_runway),
     [type |-> "node", lat |-> 10, lon |-> 20, tags |-> NoTags],
     [type |-> "node", id |-> 1, lon |-> 20, tags |-> ("aeroway" :> S_gate) @@ ("ref" :> S_A1)],
     [type |-> "node", id |-> 1, lat |-> 10, tags |-> NoTags],
     [type |-> "node", id |-> 1, lat |-> 10, lon |-> 20],
     [type |-> "way", nodes |-> <<1, 2>>, tags |-> ("aeroway" :> S_runway)],
     [type |-> "way", id |-> 7, tags |-> ("aeroway" :> S_runway)],
     [type |-> "way", id |-> 7, nodes |-> <<1, 2>>],
     [id |-> 1, lat |-> 10, lon |-> 20, tags |-> NoTags],
     [type |-> "relation", id |-> 9, tags |-> ("aeroway" :> S_apron)]}

RawLists == UNION {[1..n -> RawPool] : n \in 0..MaxRawElems}

InitIngest ==
    /\ elements \in RawLists
    /\ pc = "first_pass"
    /\ i = 1
    /\ nodes = [gng |-> NoIndex, es |-> NoIndex]
    /\ features = [gng |-> [lines |-> <<>>, areas |-> <<>>, points |-> <<>>],
                   es |-> [lines |-> <<>>, areas |-> <<>>, labels |-> <<>>]]
    /\ dms_in = DmsIdle
    /\ dms_out = [es |-> <<>>, filters |-> <<>>]
    /\ ToolsIdle

NextIngest ==
    \/ FirstPassStep
    \/ FirstPassRaise
    \/ SecondPassStart
    \/ SecondPassStep
    \/ SecondPassRaise
    \/ SortAndReturn

SpecIngest == InitIngest /\ [][NextIngest]_vars

\* The three sorts applied once more, to the FeatureSet parse_osm_data returned
SortAgain ==
    /\ pc = "done"
    /\ features' = [gng |-> SortGng(features.gng), es |-> SortEs(features.es)]
    /\ pc' = "sorted_again"
    /\ UNCHANGED <<elements, i, nodes>>
    /\ UNCHANGED dmsVars
    /\ UNCHANGED toolVars

NextResort == Next \/ SortAgain

SpecResort == Init /\ [][NextResort]_vars

(***************************************************************************)
(* decimal_to_dms                                                          *)
(*                                                                         *)
(* Decimal degrees are counted in units of 10^-7 degree, the resolution of *)
(* OSM coordinates, and the arithmetic on them is exact: the rounding of   *)
(* binary floating point is not modelled.                                  *)
(***************************************************************************)

Scale == 10 ^ 7   \* units per degree

DigitChars == <<"0", "1", "2", "3", "4", "5", "6", "7", "8", "9">>

RECURSIVE Decimal(_)
\* the decimal digits of a natural number
Decimal(n) ==
    IF n < 10 THEN <<DigitChars[n + 1]>>
    ELSE Decimal(n \div 10) \o <<DigitChars[(n % 10) + 1]>>

RECURSIVE ZeroPad(_, _)
\* zero padding on the left to a minimum width, as the format specs 03d, 02d, 06.3f pad
ZeroPad(digits, width) ==
    IF Len(digits) >= width THEN digits ELSE ZeroPad(<<"0">> \o digits, width)

\* round(num / den) to the nearest integer, a tie to the even one, as float formatting rounds
RoundHalfEven(num, den) ==
    LET q == num \div den
        r == num % den
    IN  IF 2 * r > den \/ (2 * r = den /\ q % 2 = 1) THEN q + 1 ELSE q

\* f"{seconds:06.3f}" for seconds = rem * 60 / Scale, rem the fraction of a minute
\* in units of 1/Scale minute: the thousandths are rem * 60 * 1000 / Scale = rem * 6 / 1000
FormatSeconds(rem) ==
    LET thousandths == RoundHalfEven(rem * 6, 1000)
    IN  ZeroPad(Decimal(thousandths \div 1000) \o <<".">>
                    \o ZeroPad(Decimal(thousandths % 1000), 3), 6)

\* abs(decimal_degrees)
Abs(x) == IF x >= 0 THEN x ELSE -x

\* decimal_to_dms of osm_to_euroscope.py, with `is_positive = decimal_degrees > 0`
decimal_to_dms_StrictSign(decimal_degrees, is_latitude) ==
    LET is_positive == decimal_degrees > 0
        a == Abs(decimal_degrees)
        degrees == a \div Scale
        minutes_decimal == (a - degrees * Scale) * 60
        minutes == minutes_decimal \div Scale
        direction == IF is_latitude THEN (IF is_positive THEN "N" ELSE "S")
                     ELSE (IF is_positive THEN "E" ELSE "W")
    IN  <<direction>> \o ZeroPad(Decimal(degrees), 3) \o <<".">>
            \o ZeroPad(Decimal(minutes), 2) \o <<".">>
            \o FormatSeconds(minutes_decimal - minutes * Scale)

\* decimal_to_dms of osm_to_euroscope.py
decimal_to_dms(decimal_degrees, is_latitude) ==
    LET is_positive == decimal_degrees >= 0
        a == Abs(decimal_degrees)
        degrees == a \div Scale
        minutes_decimal == (a - degrees * Scale) * 60
        minutes == minutes_decimal \div Scale
        direction == IF is_latitude THEN (IF is_positive THEN "N" ELSE "S")
                     ELSE (IF is_positive THEN "E" ELSE "W")
    IN  <<direction>> \o ZeroPad(Decimal(degrees), 3) \o <<".">>
            \o ZeroPad(Decimal(minutes), 2) \o <<".">>
            \o FormatSeconds(minutes_decimal - minutes * Scale)

\* decimal_to_dms of mapdata/templates/filters.py
filters_decimal_to_dms(decimal, is_latitude) ==
    LET hemisphere == IF is_latitude THEN (IF decimal >= 0 THEN "N" ELSE "S")
                      ELSE (IF decimal >= 0 THEN "E" ELSE "W")
        a == Abs(decimal)
        degrees == a \div Scale
        minutes_decimal == (a - degrees * Scale) * 60
        minutes == minutes_decimal \div Scale
    IN  <<hemisphere>> \o ZeroPad(Decimal(degrees), 3) \o <<".">>
            \o ZeroPad(Decimal(minutes), 2) \o <<".">>
            \o FormatSeconds(minutes_decimal - minutes * Scale)

DmsGrid == 400   \* fractions of a degree the inputs are taken at

DmsDegrees == {0, 1, 9, 10, 44, 63, 99, 100, 179}

\* the grid points of a degree and the last unit before each
DmsFractions ==
    LET step == Scale \div DmsGrid
    IN  {k * step : k \in 0..(DmsGrid - 1)} \cup {k * step - 1 : k \in 1..DmsGrid}

\* decimal degrees in [-180, 180]
DmsValues ==
    {sg * (d * Scale + f) : sg \in {1, -1}, d \in DmsDegrees, f \in DmsFractions}
        \cup {180 * Scale, -180 * Scale}

InitDms ==
    /\ dms_in \in [value : DmsValues, is_latitude : BOOLEAN]
    /\ dms_out = [es |-> <<>>, filters |-> <<>>]
    /\ pc = "dms_call"
    /\ ParseIdle
    /\ ToolsIdle

\* One call of decimal_to_dms, in both modules
DmsCall ==
    /\ pc = "dms_call"
    /\ dms_out' = [es |-> decimal_to_dms(dms_in.value, dms_in.is_latitude),
                   filters |-> filters_decimal_to_dms(dms_in.value, dms_in.is_latitude)]
    /\ pc' = "dms_done"
    /\ UNCHANGED <<elements, i, nodes, features, dms_in>>
    /\ UNCHANGED toolVars

NextDms == DmsCall

SpecDms == InitDms /\ [][NextDms]_vars

(***************************************************************************)
(* normalize_hangar_name, called on its own                                *)
(***************************************************************************)

MaxPieces == 3   \* pieces a name given to normalize_hangar_name is made of at most

S_HANGER == <<"H", "A", "N", "G", "E", "R">>

\* the pieces names are made of: the four misspellings, the correct spelling,
\* a differently-cased variant, and halves that join into a misspelling
NamePieces ==
    {S_Hanger, S_hanger, S_Hagner, S_hagner, S_Hangar, S_HANGER,
     <<"H", "a", "n">>, <<"g", "e", "r">>, <<"h", "a", "g">>, <<"n", "e", "r">>,
     <<" ">>, <<"3">>}

RECURSIVE Concat(_)
\* the pieces of a name joined
Concat(pieces) == IF pieces = <<>> THEN <<>> ELSE Head(pieces) \o Concat(Tail(pieces))

NormInputs == {Concat(ps) : ps \in UNION {[1..n -> NamePieces] : n \in 0..MaxPieces}}

InitNorm ==
    /\ norm_in \in NormInputs
    /\ norm_out = <<>>
    /\ pc = "norm_call"
    /\ MainIdle
    /\ BatchIdle
    /\ line_features = <<>>
    /\ lines_file = <<>>
    /\ topsky_file = <<>>
    /\ topsky_args = TopskyDefaults
    /\ ParseIdle
    /\ dms_in = DmsIdle
    /\ dms_out = [es |-> <<>>, filters |-> <<>>]

\* One call of normalize_hangar_name
NormCall ==
    /\ pc = "norm_call"
    /\ norm_out' = normalize_hangar_name(norm_in)
    /\ pc' = "norm_done"
    /\ UNCHANGED <<norm_in>>
    /\ UNCHANGED <<elements, i, nodes, features>>
    /\ UNCHANGED dmsVars
    /\ UNCHANGED fileVars
    /\ UNCHANGED mainVars
    /\ UNCHANGED batchVars

NextNorm == NormCall

SpecNorm == InitNorm /\ [][NextNorm]_vars

\* normalize_hangar_name called once more, on the text it returned
NormAgain ==
    /\ pc = "norm_done"
    /\ norm_out' = normalize_hangar_name(norm_out)
    /\ pc' = "norm_again"
    /\ UNCHANGED <<norm_in>>
    /\ UNCHANGED <<elements, i, nodes, features>>
    /\ UNCHANGED dmsVars
    /\ UNCHANGED fileVars
    /\ UNCHANGED mainVars
    /\ UNCHANGED batchVars

NextRenorm == NormCall \/ NormAgain

SpecRenorm == InitNorm /\ [][NextRenorm]_vars

(***************************************************************************)
(* write_lines_file of osm_to_euroscope.py and convert_to_topsky of         *)
(* euroscope_to_topsky.py, which reads the file the former writes           *)
(*                                                                         *)
(* A file is the sequence of its lines. A segment line is kept as the       *)
(* parts line.split() cuts it into; a comment line as the text after ';'.   *)
(***************************************************************************)

MaxPoints == 3   \* coordinate pairs one line feature carries at most

\* format_coordinate(lon, lat): the two tokens of f"{lat_dms} {lon_dms}"
format_coordinate(lon, lat) == <<decimal_to_dms(lat, TRUE), decimal_to_dms(lon, FALSE)>>

\* f";{feature['name']}\n"
CommentLine(name) == [comment |-> TRUE, text |-> name, parts |-> <<>>]

\* f"{coord1} {coord2} {feature['color']}\n"
SegmentLine(coord1, coord2, color) ==
    [comment |-> FALSE, text |-> <<>>,
     parts |-> <<coord1[1], coord1[2], coord2[1], coord2[2], color>>]

\* The lines of one feature with the comment written before every segment
FeatureLines_CommentPerSegment(feature) ==
    LET coords == feature.coords
        Seg(k) == SegmentLine(format_coordinate(coords[k][1], coords[k][2]),
                              format_coordinate(coords[k + 1][1], coords[k + 1][2]),
                              feature.color)
        n == Len(coords)
    IN  IF n < 2 THEN <<>>
        ELSE [k \in 1..(2 * (n - 1)) |->
                 IF k % 2 = 1 THEN CommentLine(feature.name) ELSE Seg(k \div 2)]

\* The lines write_lines_file writes for one feature: a segment per consecutive
\* pair of coords, the comment before the first
FeatureLines(feature) ==
    LET coords == feature.coords
        Seg(k) == SegmentLine(format_coordinate(coords[k][1], coords[k][2]),
                              format_coordinate(coords[k + 1][1], coords[k + 1][2]),
                              feature.color)
    IN  IF Len(coords) < 2 THEN <<>>
        ELSE <<CommentLine(feature.name)>> \o [k \in 1..(Len(coords) - 1) |-> Seg(k)]

RECURSIVE write_lines_file(_)
\* write_lines_file: the lines of every feature, in the order of features['lines']
write_lines_file(fs) ==
    IF fs = <<>> THEN <<>> ELSE FeatureLines(Head(fs)) \o write_lines_file(Tail(fs))

RECURSIVE TopskyCoordinates_KeepDuplicates(_)
\* The reading loop without `if not coordinates or coordinates[-1] != coord`
TopskyCoordinates_KeepDuplicates(file) ==
    IF file = <<>> THEN <<>>
    ELSE LET coordinates == TopskyCoordinates_KeepDuplicates(SubSeq(file, 1, Len(file) - 1))
             line == file[Len(file)]
         IN  IF line.comment \/ Len(line.parts) < 2 THEN coordinates
             ELSE Append(coordinates, <<line.parts[1], line.parts[2]>>)

RECURSIVE TopskyCoordinates(_)
\* convert_to_topsky, the reading loop: (parts[0], parts[1]) of every line that is
\* no comment, unless equal to the pair appended last
TopskyCoordinates(file) ==
    IF file = <<>> THEN <<>>
    ELSE LET coordinates == TopskyCoordinates(SubSeq(file, 1, Len(file) - 1))
             line == file[Len(file)]
         IN  IF line.comment \/ Len(line.parts) < 2 THEN coordinates
             ELSE LET coord == <<line.parts[1], line.parts[2]>>
                  IN  IF coordinates = <<>> \/ coordinates[Len(coordinates)] # coord
                      THEN Append(coordinates, coord)
                      ELSE coordinates

\* convert_to_topsky, the writing loop: a COORD line per pair, then COORDPOLY
convert_to_topsky(file, color, polygon_type) ==
    LET coordinates == TopskyCoordinates(file)
    IN  [k \in 1..Len(coordinates) |->
            [kind |-> "COORD", lat |-> coordinates[k][1], lon |-> coordinates[k][2]]]
        \o <<[kind |-> "COORDPOLY", color |-> color, type |-> polygon_type]>>

\* Positions (lon, lat) in units of 1/Scale degree: three apart, and one that is
\* one unit from the first and prints as the same tokens
LinePoints ==
    {<<1 * Scale, 1 * Scale>>, <<2 * Scale, 2 * Scale>>, <<3 * Scale, 1 * Scale>>,
     <<1 * Scale + 1, 1 * Scale>>}

CoordLists == UNION {[1..n -> LinePoints] : n \in 0..MaxPoints}

\* features['lines'] of the inputs: none, one feature, or one followed by a second
LineFeatureLists ==
    {<<>>}
      \cup {<<Feature(S_taxiway, "COLOR_TaxiwayYellow", c, n, 1)>> :
                c \in CoordLists, n \in {S_A, <<>>}}
      \cup {<<Feature(S_runway, "COLOR_RunwayBorder", c, S_runway, 0),
               Feature(S_taxiway, "COLOR_TaxiwayYellow",
                       <<<<1 * Scale, 1 * Scale>>, <<2 * Scale, 2 * Scale>>>>, S_B, 1)>> :
                c \in CoordLists}

InitLines ==
    /\ line_features \in LineFeatureLists
    /\ lines_file = <<>>
    /\ topsky_file = <<>>
    /\ topsky_args = TopskyDefaults
    /\ pc = "write_lines"
    /\ MainIdle
    /\ BatchIdle
    /\ ParseIdle
    /\ dms_in = DmsIdle
    /\ dms_out = [es |-> <<>>, filters |-> <<>>]
    /\ norm_in = <<>>
    /\ norm_out = <<>>

\* One call of write_lines_file
WriteLinesFile ==
    /\ pc = "write_lines"
    /\ lines_file' = write_lines_file(line_features)
    /\ pc' = "lines_written"
    /\ UNCHANGED <<line_features, topsky_file, topsky_args>>
    /\ UNCHANGED <<elements, i, nodes, features>>
    /\ UNCHANGED dmsVars
    /\ UNCHANGED normVars
    /\ UNCHANGED mainVars
    /\ UNCHANGED batchVars

\* One call of convert_to_topsky on the file at hand
ConvertToTopsky ==
    /\ pc = "lines_written"
    /\ topsky_file' = convert_to_topsky(lines_file, topsky_args.color,
                                        topsky_args.polygon_type)
    /\ pc' = "topsky_done"
    /\ UNCHANGED <<line_features, lines_file, topsky_args>>
    /\ UNCHANGED <<elements, i, nodes, features>>
    /\ UNCHANGED dmsVars
    /\ UNCHANGED normVars
    /\ UNCHANGED mainVars
    /\ UNCHANGED batchVars

NextLines == WriteLinesFile \/ ConvertToTopsky

SpecLines == InitLines /\ [][NextLines]_vars

(***************************************************************************)
(* convert_to_topsky called on any input file, with any color and type      *)
(***************************************************************************)

MaxFileLines == 3   \* lines of an input file of convert_to_topsky at most

\* a line that is empty once stripped
BlankLine == [comment |-> FALSE, text |-> <<>>, parts |-> <<>>]

\* the tokens (lat, lon) three positions print as
P1 == format_coordinate(1 * Scale, 1 * Scale)
P2 == format_coordinate(2 * Scale, 2 * Scale)
P3 == format_coordinate(3 * Scale, 1 * Scale)

\* The lines of the input files: a blank line, a comment, a line of one token,
\* and segment lines, two of them with the same start and different ends
TopskyLinePool ==
    {BlankLine,
     CommentLine(S_A),
     [comment |-> FALSE, text |-> <<>>, parts |-> <<P1[1]>>],
     SegmentLine(P1, P2, "COLOR_TaxiwayYellow"),
     SegmentLine(P1, P3, "COLOR_TaxiwayYellow"),
     SegmentLine(P2, P3, "COLOR_TaxiwayYellow"),
     SegmentLine(P3, P1, "COLOR_RunwayBorder")}

TopskyFiles == UNION {[1..n -> TopskyLinePool] : n \in 0..MaxFileLines}

\* color and polygon_type as main takes them from sys.argv, or the defaults
TopskyArgs == [color : {"AirspaceA", "AirspaceB"}, polygon_type : {"Boundary", "Danger"}]

InitTopsky ==
    /\ lines_file \in TopskyFiles
    /\ topsky_args \in TopskyArgs
    /\ line_features = <<>>
    /\ topsky_file = <<>>
    /\ pc = "lines_written"
    /\ MainIdle
    /\ BatchIdle
    /\ ParseIdle
    /\ dms_in = DmsIdle
    /\ dms_out = [es |-> <<>>, filters |-> <<>>]
    /\ norm_in = <<>>
    /\ norm_out = <<>>

NextTopsky == ConvertToTopsky

SpecTopsky == InitTopsky /\ [][NextTopsky]_vars

(***************************************************************************)
(* main of osm_to_kml.py, osm_to_gng_direct.py and osm_to_euroscope.py      *)
(*                                                                         *)
(* The request to the Overpass API is the environment's: it fails to        *)
(* connect, times out, answers with an error status, or answers with the    *)
(* element list. printed holds the kinds of the messages, not their text.   *)
(***************************************************************************)

Converters == {"kml", "gng", "es"}

FetchOutcomes == {"connection_error", "timeout", "http_error", "ok"}

\* query_overpass without the test of the response status
QueryOutcome_NoStatusCheck(conv, outcome) ==
    IF outcome \in {"connection_error", "timeout"} THEN "RequestException" ELSE "returns"

\* query_overpass of the script: what the call comes to. requests.post raises a
\* RequestException when it cannot connect or times out; on an error status
\* raise_for_status raises one (gng, es) and osm_to_kml raises Exception
QueryOutcome(conv, outcome) ==
    IF outcome \in {"connection_error", "timeout"} THEN "RequestException"
    ELSE IF outcome = "http_error"
    THEN (IF conv = "kml" THEN "Exception" ELSE "RequestException")
    ELSE "returns"

S_holding_position == <<"h", "o", "l", "d", "i", "n", "g", "_", "p", "o", "s", "i", "t", "i", "o", "n">>
S_terminal == <<"t", "e", "r", "m", "i", "n", "a", "l">>
S_tower == <<"t", "o", "w", "e", "r">>
S_meadow == <<"m", "e", "a", "d", "o", "w">>
S_forest == <<"f", "o", "r", "e", "s", "t">>
S_tree_row == <<"t", "r", "e", "e", "_", "r", "o", "w">>
S_service == <<"s", "e", "r", "v", "i", "c", "e">>

\* categorize_element of osm_to_kml.py: the style id, or "None"
categorize_element(element) ==
    LET tags == ElementTags(element)
        aeroway == Get(tags, "aeroway", <<>>)
        building == Get(tags, "building", <<>>)
    IN  IF aeroway = S_runway THEN "runway"
        ELSE IF aeroway = S_taxiway THEN "taxiway"
        ELSE IF aeroway = S_taxilane THEN "taxilane"
        ELSE IF aeroway = S_apron THEN "apron"
        ELSE IF aeroway = S_parking_position THEN "parking"
        ELSE IF aeroway = S_gate THEN "gate"
        ELSE IF aeroway = S_holding_position THEN "holding"
        ELSE IF aeroway = S_terminal THEN "terminal"
        ELSE IF aeroway = S_hangar THEN "hangar"
        ELSE IF aeroway = S_tower THEN "tower"
        ELSE IF building = S_terminal THEN "terminal"
        ELSE IF building = S_hangar THEN "hangar"
        ELSE IF building = S_tower THEN "tower"
        ELSE IF building # <<>> /\ aeroway # <<>> THEN "building"
        ELSE IF TagIs(tags, "landuse", S_grass) \/ TagIs(tags, "natural", S_grassland)
        THEN "grass"
        ELSE IF TagIs(tags, "landuse", S_meadow) THEN "meadow"
        ELSE IF TagIs(tags, "natural", S_wood) \/ TagIs(tags, "landuse", S_forest) THEN "wood"
        ELSE IF TagIs(tags, "natural", S_tree_row) THEN "tree_row"
        ELSE IF TagIs(tags, "natural", S_water) \/ Truthy(tags, "waterway") THEN "water"
        ELSE IF TagIs(tags, "highway", S_service) THEN "service_road"
        ELSE "None"

\* convert_osm_to_kml raises KeyError on this element: element['type'] of a
\* categorized element, element['lon'] and element['lat'] of a categorized node
KmlRaises(element) ==
    IF categorize_element(element) = "None" THEN FALSE
    ELSE IF "type" \notin DOMAIN element THEN TRUE
    ELSE element.type = "node" /\ ~({"lat", "lon"} \subseteq DOMAIN element)

\* The conversion main runs on the fetched elements: convert_osm_to_kml,
\* convert_osm_to_gng or parse_osm_data; what the call comes to
ConvertOutcome(conv, elems) ==
    IF conv = "kml"
    THEN (IF \E k \in DOMAIN elems : KmlRaises(elems[k]) THEN "Exception" ELSE "returns")
    ELSE (IF \E k \in DOMAIN elems : FirstPassRaises(elems[k]) \/ SecondPassRaises(elems[k])
          THEN "Exception" ELSE "returns")

\* The files main opens for writing
OutputFiles(conv) ==
    CASE conv = "kml" -> {"ICAO_ground.kml"}
      [] conv = "gng" -> {"ICAO_gng.kml"}
      [] conv = "es" -> {"ICAO_Lines.txt", "ICAO_Areas.txt", "ICAO_Labels.txt"}

InitMain ==
    /\ converter \in Converters
    /\ fetch \in FetchOutcomes
    /\ elements \in (IF fetch = "ok" THEN RawLists ELSE {<<>>})
    /\ pc = "main_query"
    /\ printed = <<>>
    /\ files = {}
    /\ converted = FALSE
    /\ exit_status = "none"
    /\ i = 1
    /\ nodes = [gng |-> NoIndex, es |-> NoIndex]
    /\ features = [gng |-> [lines |-> <<>>, areas |-> <<>>, points |-> <<>>],
                   es |-> [lines |-> <<>>, areas |-> <<>>, labels |-> <<>>]]
    /\ dms_in = DmsIdle
    /\ dms_out = [es |-> <<>>, filters |-> <<>>]
    /\ norm_in = <<>>
    /\ norm_out = <<>>
    /\ line_features = <<>>
    /\ lines_file = <<>>
    /\ topsky_file = <<>>
    /\ topsky_args = TopskyDefaults
    /\ BatchIdle

\* osm_data = query_overpass(icao)
MainQuery ==
    /\ pc = "main_query"
    /\ printed' = Append(printed, "querying")
    /\ pc' = CASE QueryOutcome(converter, fetch) = "RequestException" -> "except_request"
                [] QueryOutcome(converter, fetch) = "Exception" -> "except_exception"
                [] OTHER -> IF converter = "kml" THEN "main_check" ELSE "main_convert"
    /\ UNCHANGED <<converter, fetch, files, converted, exit_status>>
    /\ UNCHANGED <<elements, i, nodes, features>>
    /\ UNCHANGED <<dmsVars, normVars, fileVars, batchVars>>

\* osm_to_kml only: if not osm_data.get('elements'): guidance and sys.exit(1)
MainCheckEmpty ==
    /\ pc = "main_check"
    /\ IF elements = <<>>
       THEN /\ printed' = Append(printed, "guidance")
            /\ exit_status' = "1"
            /\ pc' = "exited"
       ELSE /\ printed' = Append(printed, "found")
            /\ exit_status' = exit_status
            /\ pc' = "main_convert"
    /\ UNCHANGED <<converter, fetch, files, converted>>
    /\ UNCHANGED <<elements, i, nodes, features>>
    /\ UNCHANGED <<dmsVars, normVars, fileVars, batchVars>>

\* The conversion: it returns, or an exception leaves the try block
MainConvert ==
    /\ pc = "main_convert"
    /\ IF ConvertOutcome(converter, elements) = "returns"
       THEN /\ converted' = TRUE
            /\ printed' = IF converter = "kml" THEN printed
                           ELSE printed \o <<"converting", "found">>
            /\ pc' = "main_write"
       ELSE /\ converted' = converted
            /\ printed' = IF converter = "kml" THEN printed
                           ELSE Append(printed, "converting")
            /\ pc' = "except_exception"
    /\ UNCHANGED <<converter, fetch, files, exit_status>>
    /\ UNCHANGED <<elements, i, nodes, features>>
    /\ UNCHANGED <<dmsVars, normVars, fileVars, batchVars>>

\* Write output: open(output_file, 'w') and write, for every output file
MainWrite ==
    /\ pc = "main_write"
    /\ files' = files \cup OutputFiles(converter)
    /\ printed' = IF converter = "es" THEN Append(printed, "written") ELSE printed
    /\ pc' = "main_report"
    /\ UNCHANGED <<converter, fetch, converted, exit_status>>
    /\ UNCHANGED <<elements, i, nodes, features>>
    /\ UNCHANGED <<dmsVars, normVars, fileVars, batchVars>>

\* The success message and the end of main
MainReport ==
    /\ pc = "main_report"
    /\ printed' = Append(printed, "success")
    /\ exit_status' = "0"
    /\ pc' = "exited"
    /\ UNCHANGED <<converter, fetch, files, converted>>
    /\ UNCHANGED <<elements, i, nodes, features>>
    /\ UNCHANGED <<dmsVars, normVars, fileVars, batchVars>>

\* except requests.exceptions.RequestException: the message and sys.exit(1)
HandleRequestException ==
    /\ pc = "except_request"
    /\ printed' = Append(printed, "error_querying")
    /\ exit_status' = "1"
    /\ pc' = "exited"
    /\ UNCHANGED <<converter, fetch, files, converted>>
    /\ UNCHANGED <<elements, i, nodes, features>>
    /\ UNCHANGED <<dmsVars, normVars, fileVars, batchVars>>

\* except Exception: the message, traceback.print_exc() and sys.exit(1)
HandleException ==
    /\ pc = "except_exception"
    /\ printed' = printed \o <<"error", "traceback">>
    /\ exit_status' = "1"
    /\ pc' = "exited"
    /\ UNCHANGED <<converter, fetch, files, converted>>
    /\ UNCHANGED <<elements, i, nodes, features>>
    /\ UNCHANGED <<dmsVars, normVars, fileVars, batchVars>>

NextMain ==
    \/ MainQuery
    \/ MainCheckEmpty
    \/ MainConvert
    \/ MainWrite
    \/ MainReport
    \/ HandleRequestException
    \/ HandleException

SpecMain == InitMain /\ [][NextMain]_vars

(***************************************************************************)
(* parse_osm_data as a function of the element list: the two loops and the  *)
(* sorts, run to the end on a list no element of which raises               *)
(***************************************************************************)

RECURSIVE FirstPass(_)
\* the node index after the first loop over the list
FirstPass(elems) ==
    IF elems = <<>> THEN NoIndex
    ELSE CollectNode(FirstPass(SubSeq(elems, 1, Len(elems) - 1)), elems[Len(elems)])

RECURSIVE SecondPassGng(_, _)
\* features after the second loop of the GNG converter over the list
SecondPassGng(elems, index) ==
    IF elems = <<>> THEN [lines |-> <<>>, areas |-> <<>>, points |-> <<>>]
    ELSE ProcessGng(SecondPassGng(SubSeq(elems, 1, Len(elems) - 1), index), index,
                    elems[Len(elems)])

RECURSIVE SecondPassEs(_, _)
\* features after the second loop of the EuroScope converter over the list
SecondPassEs(elems, index) ==
    IF elems = <<>> THEN [lines |-> <<>>, areas |-> <<>>, labels |-> <<>>]
    ELSE ProcessEs(SecondPassEs(SubSeq(elems, 1, Len(elems) - 1), index), index,
                   elems[Len(elems)])

\* parse_osm_data of osm_to_gng_direct.py: the features it returns
parse_osm_data_gng(elems) == SortGng(SecondPassGng(elems, FirstPass(elems)))

\* parse_osm_data of osm_to_euroscope.py: the features it returns
parse_osm_data_es(elems) == SortEs(SecondPassEs(elems, FirstPass(elems)))

(***************************************************************************)
(* batch_process.py: main runs the GNG converter once per airport, as a     *)
(* subprocess. The exit status of each subprocess is the environment's.     *)
(***************************************************************************)

\* the ICAO codes of AIRPORTS, in list order
AIRPORTS == <<"CYHZ", "CYYT", "CYQM", "CYSJ", "CYFC">>

\* exit statuses of a converter run: success, sys.exit(1), a usage error of argparse
ExitStatuses == {0, 1, 2}

\* process_airport taking only the status 1 for a failure
process_airport_OnlyStatusOne(returncode) == returncode # 1

\* process_airport, its result: subprocess.run(cmd, check=True, ...) raises
\* CalledProcessError on a non-zero exit status, which returns False; else True
process_airport(returncode) == returncode = 0

InitBatch ==
    /\ exits \in [DOMAIN AIRPORTS -> ExitStatuses]
    /\ invoked = <<>>
    /\ success_count = 0
    /\ failed = <<>>
    /\ pc = "batch_start"
    /\ MainIdle
    /\ ParseIdle
    /\ dms_in = DmsIdle
    /\ dms_out = [es |-> <<>>, filters |-> <<>>]
    /\ norm_in = <<>>
    /\ norm_out = <<>>
    /\ line_features = <<>>
    /\ lines_file = <<>>
    /\ topsky_file = <<>>
    /\ topsky_args = TopskyDefaults

\* main up to the loop: the banner, os.makedirs, success_count = 0, failed = []
BatchStart ==
    /\ pc = "batch_start"
    /\ printed' = Append(printed, "banner")
    /\ success_count' = 0
    /\ failed' = <<>>
    /\ pc' = "batch_loop"
    /\ UNCHANGED <<exits, invoked>>
    /\ UNCHANGED <<converter, fetch, files, converted, exit_status>>
    /\ UNCHANGED <<elements, i, nodes, features>>
    /\ UNCHANGED <<dmsVars, normVars, fileVars>>

\* One turn of `for airport in AIRPORTS`: process_airport and the counting
BatchProcessAirport ==
    /\ pc = "batch_loop"
    /\ Len(invoked) < Len(AIRPORTS)
    /\ LET k == Len(invoked) + 1
       IN  /\ invoked' = Append(invoked, AIRPORTS[k])
           /\ IF process_airport(exits[k])
              THEN /\ success_count' = success_count + 1
                   /\ failed' = failed
                   /\ printed' = printed \o <<"processing", "stdout">>
              ELSE /\ success_count' = success_count
                   /\ failed' = Append(failed, AIRPORTS[k])
                   /\ printed' = printed \o <<"processing", "error_processing">>
    /\ UNCHANGED <<exits, pc>>
    /\ UNCHANGED <<converter, fetch, files, converted, exit_status>>
    /\ UNCHANGED <<elements, i, nodes, features>>
    /\ UNCHANGED <<dmsVars, normVars, fileVars>>

\* The loop is exhausted: the summary
BatchSummary ==
    /\ pc = "batch_loop"
    /\ Len(invoked) = Len(AIRPORTS)
    /\ printed' = printed \o <<"summary", IF failed # <<>> THEN "failed_list" ELSE "all_ok",
                               "next_steps">>
    /\ pc' = "batch_done"
    /\ UNCHANGED batchVars
    /\ UNCHANGED <<converter, fetch, files, converted, exit_status>>
    /\ UNCHANGED <<elements, i, nodes, features>>
    /\ UNCHANGED <<dmsVars, normVars, fileVars>>

NextBatch == BatchStart \/ BatchProcessAirport \/ BatchSummary

SpecBatch == InitBatch /\ [][NextBatch]_vars

(***************************************************************************)
(* Vocabulary of the properties                                            *)
(***************************************************************************)

Convs == {"gng", "es"}

Lines(conv) == features[conv].lines

Areas(conv) == features[conv].areas

Labels(conv) == IF conv = "gng" THEN features.gng.points ELSE features.es.labels

S_building == <<"b", "u", "i", "l", "d", "i", "n", "g">>
S_Hangar3 == <<"H", "a", "n", "g", "a", "r", " ", "3">>

LineKinds == {S_runway, S_taxiway, S_taxilane}

LabelKinds == {S_gate, S_parking_position, S_stand}

IsLabelElement(e) == "aeroway" \in DOMAIN e.tags /\ e.tags["aeroway"] \in LabelKinds

WayIdx == {k \in DOMAIN elements : elements[k].type = "way"}

NodeIdx == {k \in DOMAIN elements : elements[k].type = "node"}

\* the identifiers of the node elements of the input
NodeIds == {elements[k].id : k \in NodeIdx}

\* at least one node id of the way is the id of a node element
Resolvable(w) == \E k \in DOMAIN w.nodes : w.nodes[k] \in NodeIds

\* first and last referenced node identifiers are identical
ClosedByIds(w) == w.nodes[1] = w.nodes[Len(w.nodes)]

\* the input holds exactly one way, and parse_osm_data has returned
DoneOneWay == pc = "done" /\ Cardinality(WayIdx) = 1

TheWay == elements[CHOOSE k \in WayIdx : TRUE]

\* the way's name: the name tag if present, else the ref tag, else empty
NameOf(w) ==
    IF "name" \in DOMAIN w.tags THEN w.tags["name"]
    ELSE IF "ref" \in DOMAIN w.tags THEN w.tags["ref"] ELSE <<>>

HasTag(w, k, v) == k \in DOMAIN w.tags /\ w.tags[k] = v

NonEmptyTag(w, k) == k \in DOMAIN w.tags /\ w.tags[k] # <<>>

\* The guards of rules 1 to 9, in the order of the specification's list
RuleKinds ==
    <<S_taxiway, S_taxilane, S_runway, S_apron, S_hangar, S_building, S_wood, S_grass,
      S_water>>

RuleApplies(r, w) ==
    CASE r = 1 -> HasTag(w, "aeroway", S_taxiway) /\ ~ClosedByIds(w)
      [] r = 2 -> HasTag(w, "aeroway", S_taxilane) /\ ~ClosedByIds(w)
      [] r = 3 -> HasTag(w, "aeroway", S_runway) /\ ~ClosedByIds(w)
      [] r = 4 -> HasTag(w, "aeroway", S_apron)
      [] r = 5 -> HasTag(w, "aeroway", S_hangar) \/ HasTag(w, "building", S_hangar)
      [] r = 6 -> NonEmptyTag(w, "building")
      [] r = 7 -> HasTag(w, "natural", S_wood)
      [] r = 8 -> HasTag(w, "natural", S_grassland) \/ HasTag(w, "landuse", S_grass)
      [] r = 9 -> \/ HasTag(w, "natural", S_water)
                  \/ NonEmptyTag(w, "water")
                  \/ NonEmptyTag(w, "waterway")

\* the way has resolved coordinates and no rule before r applies to it
Reaches(r, w) == Resolvable(w) /\ \A q \in 1..(r - 1) : ~RuleApplies(q, w)

\* the kind of the earliest rule that applies, or <<>> when none does
FirstKind(w) ==
    IF \E r \in 1..9 : RuleApplies(r, w)
    THEN RuleKinds[CHOOSE r \in 1..9 : RuleApplies(r, w) /\ \A q \in 1..(r - 1) : ~RuleApplies(q, w)]
    ELSE <<>>

\* the ways the second pass has gone through so far
ProcessedWays ==
    {k \in WayIdx : pc = "done" \/ (pc = "second_pass" /\ k < i)}

CountKind(s, kind) == Cardinality({k \in DOMAIN s : s[k].type = kind})

(***************************************************************************)
(* C1: first match wins. Every way with resolved coordinates yields exactly *)
(* the one feature of the earliest rule that applies to it, and no feature  *)
(* when none applies: at any point of the second pass, lines and areas hold *)
(* of each kind as many features as processed ways whose earliest rule is   *)
(* of that kind, line kinds in lines only and area kinds in areas only. In  *)
(* particular a lone open way tagged aeroway=taxiway, building=hangar with  *)
(* resolved coordinates ends as one taxiway line and no area.               *)
(***************************************************************************)
C1_FirstMatchWins ==
    \A conv \in Convs :
        /\ \A r \in 1..9 :
              CountKind(Lines(conv) \o Areas(conv), RuleKinds[r])
                  = Cardinality({k \in ProcessedWays :
                        Resolvable(elements[k]) /\ FirstKind(elements[k]) = RuleKinds[r]})
        /\ \A k \in DOMAIN Lines(conv) : Lines(conv)[k].type \in LineKinds
        /\ \A k \in DOMAIN Areas(conv) : Areas(conv)[k].type \notin LineKinds
        /\ (/\ DoneOneWay
            /\ Resolvable(TheWay)
            /\ HasTag(TheWay, "aeroway", S_taxiway)
            /\ HasTag(TheWay, "building", S_hangar)
            /\ ~ClosedByIds(TheWay))
           => /\ Len(Lines(conv)) = 1
              /\ Lines(conv)[1].type = S_taxiway
              /\ Areas(conv) = <<>>

C1_Witness ==
    /\ DoneOneWay
    /\ Resolvable(TheWay)
    /\ HasTag(TheWay, "aeroway", S_taxiway)
    /\ HasTag(TheWay, "building", S_hangar)
    /\ ~ClosedByIds(TheWay)
    /\ Len(Lines("gng")) = 1 /\ Lines("gng")[1].type = S_taxiway
    /\ Len(Lines("es")) = 1 /\ Lines("es")[1].type = S_taxiway

(***************************************************************************)
(* C2, as claimed: a lone closed way tagged aeroway=runway, taxiway or      *)
(* taxilane leaves lines, areas and labels without any feature.            *)
(***************************************************************************)
ClosedLineWay(w) ==
    /\ ClosedByIds(w)
    /\ \E v \in LineKinds : HasTag(w, "aeroway", v)

C2_ClosedLineWayDropped ==
    \A conv \in Convs :
        (DoneOneWay /\ ClosedLineWay(TheWay))
            => Lines(conv) = <<>> /\ Areas(conv) = <<>>

(***************************************************************************)
(* C2, amended: a lone closed way tagged aeroway=runway, taxiway or         *)
(* taxilane never yields a line or a label (every label is a node's), and   *)
(* yields no feature at all when it                                        *)
(* carries none of the tags building, natural, landuse, water, waterway;    *)
(* when rules 5 to 9 apply to its other tags it becomes that area.          *)
(***************************************************************************)
AreaTagKeys == {"building", "natural", "landuse", "water", "waterway"}

C2_ClosedLineWayNoLine ==
    \A conv \in Convs :
        (DoneOneWay /\ ClosedLineWay(TheWay))
            => /\ Lines(conv) = <<>>
               /\ Len(Labels(conv)) = Cardinality({k \in NodeIdx : IsLabelElement(elements[k])})
               /\ (DOMAIN TheWay.tags \cap AreaTagKeys = {}) => Areas(conv) = <<>>
               /\ (Resolvable(TheWay) /\ \E r \in 5..9 : RuleApplies(r, TheWay))
                     => Len(Areas(conv)) = 1 /\ Areas(conv)[1].type = FirstKind(TheWay)

C2_Witness ==
    /\ DoneOneWay
    /\ ClosedLineWay(TheWay)
    /\ Resolvable(TheWay)
    /\ DOMAIN TheWay.tags \cap AreaTagKeys = {}
    /\ \A conv \in Convs : Lines(conv) = <<>> /\ Areas(conv) = <<>>

(***************************************************************************)
(* C3: closure is decided by the node identifiers alone. A lone way tagged  *)
(* aeroway=runway, taxiway or taxilane with resolved coordinates becomes a  *)
(* line if and only if its first and last node ids differ, also when those  *)
(* two ids resolve to the same position or do not resolve: ids [1,2,3]      *)
(* give a line and ids [1,2,3,1] give none.                                 *)
(***************************************************************************)
C3_ClosedIffSameIds ==
    \A conv \in Convs :
        (/\ DoneOneWay
         /\ Resolvable(TheWay)
         /\ \E v \in LineKinds : HasTag(TheWay, "aeroway", v))
        => /\ (Lines(conv) # <<>>) <=> (TheWay.nodes[1] # TheWay.nodes[Len(TheWay.nodes)])
           /\ TheWay.nodes = <<1, 2, 3>> => Len(Lines(conv)) = 1
           /\ TheWay.nodes = <<1, 2, 3, 1>> => Lines(conv) = <<>>

\* ids [1,2,3] whose first and last node lie at the same position: a line
C3_Witness ==
    /\ DoneOneWay
    /\ TheWay.nodes = <<1, 2, 3>>
    /\ HasTag(TheWay, "aeroway", S_runway)
    /\ Len(Lines("gng")) = 1
    /\ Lines("gng")[1].coords[1] = Lines("gng")[1].coords[3]
    /\ Len(Lines("es")) = 1

(***************************************************************************)
(* C6: in the returned FeatureSet lines are ascending by (priority, name)   *)
(* with runway < taxiway < taxilane, areas by (priority, name) with apron   *)
(* < hangar < building < wood = grass < water, and labels by their text.    *)
(***************************************************************************)
LinePriority(kind) ==
    CASE kind = S_runway -> 0 [] kind = S_taxiway -> 1 [] kind = S_taxilane -> 2

AreaPriority(kind) ==
    CASE kind = S_apron -> 0 [] kind = S_hangar -> 1 [] kind = S_building -> 2
      [] kind = S_wood -> 3 [] kind = S_grass -> 3 [] kind = S_water -> 4

AscendingLines(s) ==
    \A j, k \in DOMAIN s :
        j < k => \/ LinePriority(s[j].type) < LinePriority(s[k].type)
                 \/ /\ LinePriority(s[j].type) = LinePriority(s[k].type)
                    /\ ~StrLess(s[k].name, s[j].name)

AscendingAreas(s) ==
    \A j, k \in DOMAIN s :
        j < k => \/ AreaPriority(s[j].type) < AreaPriority(s[k].type)
                 \/ /\ AreaPriority(s[j].type) = AreaPriority(s[k].type)
                    /\ ~StrLess(s[k].name, s[j].name)

C6_SortedByKey ==
    pc = "done" =>
        \A conv \in Convs :
            /\ AscendingLines(Lines(conv))
            /\ AscendingAreas(Areas(conv))
            /\ \A j, k \in DOMAIN Labels(conv) :
                  j < k => ~StrLess(Labels(conv)[k].ref, Labels(conv)[j].ref)

\* a taxiway way precedes a runway way in the input, and the runway line comes first
C6_Witness ==
    /\ pc = "done"
    /\ \E j, k \in WayIdx :
          /\ j < k
          /\ HasTag(elements[j], "aeroway", S_taxiway)
          /\ HasTag(elements[k], "aeroway", S_runway)
    /\ \A conv \in Convs :
          /\ Len(Lines(conv)) = 2
          /\ Lines(conv)[1].type = S_runway
          /\ Lines(conv)[2].type = S_taxiway

(***************************************************************************)
(* C7: every node element whose aeroway is gate, parking_position or stand  *)
(* yields exactly one label, with the node's own lat and lon and with the   *)
(* text of its ref tag if present, else of its name tag, else "?"; every    *)
(* other node yields none. At any point of the second pass the labels are   *)
(* as many as the label nodes processed, and each has its label.            *)
(***************************************************************************)
LabelText(e) ==
    IF "ref" \in DOMAIN e.tags THEN e.tags["ref"]
    ELSE IF "name" \in DOMAIN e.tags THEN e.tags["name"] ELSE <<"?">>

ProcessedLabelNodes ==
    {k \in NodeIdx : /\ pc = "done" \/ (pc = "second_pass" /\ k < i)
                     /\ IsLabelElement(elements[k])}

C7_NodeLabels ==
    \A conv \in Convs :
        /\ Len(Labels(conv)) = Cardinality(ProcessedLabelNodes)
        /\ \A k \in ProcessedLabelNodes :
              \E j \in DOMAIN Labels(conv) :
                  Labels(conv)[j] = [type |-> elements[k].tags["aeroway"],
                                     ref |-> LabelText(elements[k]),
                                     lat |-> elements[k].lat, lon |-> elements[k].lon]

\* a stand whose ref tag is present and empty, beside a name tag: the text is the ref
C7_Witness ==
    /\ pc = "done"
    /\ Len(elements) = 1
    /\ elements[1].type = "node"
    /\ HasTag(elements[1], "aeroway", S_stand)
    /\ HasTag(elements[1], "ref", <<>>)
    /\ HasTag(elements[1], "name", S_B)
    /\ \A conv \in Convs : Len(Labels(conv)) = 1 /\ Labels(conv)[1].ref = <<>>

(***************************************************************************)
(* C8: a lone way with resolved coordinates that rules 1 to 4 leave and     *)
(* that has aeroway=hangar or building=hangar becomes one hangar area,      *)
(* named by its normalized name, or "Hangar" when its name is empty; the    *)
(* name "Hanger 3" gives "Hangar 3".                                        *)
(***************************************************************************)
C8_HangarArea ==
    \A conv \in Convs :
        (DoneOneWay /\ Reaches(5, TheWay) /\ RuleApplies(5, TheWay))
        => /\ Lines(conv) = <<>>
           /\ Len(Areas(conv)) = 1
           /\ Areas(conv)[1].type = S_hangar
           /\ Areas(conv)[1].name =
                 IF NameOf(TheWay) = <<>> THEN S_Hangar
                 ELSE normalize_hangar_name(NameOf(TheWay))
           /\ NameOf(TheWay) = S_Hanger3 => Areas(conv)[1].name = S_Hangar3

C8_Witness ==
    /\ DoneOneWay
    /\ Reaches(5, TheWay)
    /\ HasTag(TheWay, "building", S_hangar)
    /\ NameOf(TheWay) = S_Hanger3
    /\ \A conv \in Convs : Len(Areas(conv)) = 1 /\ Areas(conv)[1].name = S_Hangar3

(***************************************************************************)
(* C9: a lone way that reaches rule 6 with a non-empty building tag         *)
(* becomes one building area, named by its normalized name, or by the       *)
(* building tag value when its name is empty, whatever natural, landuse,    *)
(* water or waterway tags it carries.                                       *)
(***************************************************************************)
C9_BuildingArea ==
    \A conv \in Convs :
        (DoneOneWay /\ Reaches(6, TheWay) /\ NonEmptyTag(TheWay, "building"))
        => /\ Lines(conv) = <<>>
           /\ Len(Areas(conv)) = 1
           /\ Areas(conv)[1].type = S_building
           /\ Areas(conv)[1].name =
                 IF NameOf(TheWay) = <<>> THEN TheWay.tags["building"]
                 ELSE normalize_hangar_name(NameOf(TheWay))

\* building=yes beside natural=water, with an empty name: a building named "yes"
C9_Witness ==
    /\ DoneOneWay
    /\ Reaches(6, TheWay)
    /\ HasTag(TheWay, "building", S_yes)
    /\ HasTag(TheWay, "natural", S_water)
    /\ NameOf(TheWay) = <<>>
    /\ \A conv \in Convs :
          /\ Len(Areas(conv)) = 1
          /\ Areas(conv)[1].type = S_building
          /\ Areas(conv)[1].name = S_yes

(***************************************************************************)
(* C10, as claimed: a lone way that reaches rule 9 becomes a water area     *)
(* named "water" if and only if it has natural=water, or a water tag is     *)
(* present, or a waterway tag is present.                                   *)
(***************************************************************************)
IsWaterArea(conv) ==
    /\ Lines(conv) = <<>>
    /\ Len(Areas(conv)) = 1
    /\ Areas(conv)[1].type = S_water
    /\ Areas(conv)[1].name = S_water

C10_WaterIffTagPresent ==
    \A conv \in Convs :
        (DoneOneWay /\ Reaches(9, TheWay))
        => (IsWaterArea(conv) <=>
               \/ HasTag(TheWay, "natural", S_water)
               \/ "water" \in DOMAIN TheWay.tags
               \/ "waterway" \in DOMAIN TheWay.tags)

(***************************************************************************)
(* C10, amended: a lone way that reaches rule 9 becomes a water area named  *)
(* "water" if and only if it has natural=water, or a non-empty water tag,   *)
(* or a non-empty waterway tag; otherwise it yields nothing. Its name and   *)
(* ref tags never change the display name.                                  *)
(***************************************************************************)
C10_WaterIffTagNonEmpty ==
    \A conv \in Convs :
        (DoneOneWay /\ Reaches(9, TheWay))
        => /\ IsWaterArea(conv) <=>
                 \/ HasTag(TheWay, "natural", S_water)
                 \/ NonEmptyTag(TheWay, "water")
                 \/ NonEmptyTag(TheWay, "waterway")
           /\ ~IsWaterArea(conv) => Lines(conv) = <<>> /\ Areas(conv) = <<>>

\* a named way with a non-empty water tag and nothing else: an area named "water"
C10_Witness ==
    /\ DoneOneWay
    /\ Reaches(9, TheWay)
    /\ NonEmptyTag(TheWay, "water")
    /\ ~HasTag(TheWay, "natural", S_water)
    /\ NameOf(TheWay) = S_Hanger3
    /\ \A conv \in Convs : IsWaterArea(conv)

(***************************************************************************)
(* Reading a DMS token back                                                *)
(***************************************************************************)

DigitValue(c) == CHOOSE d \in 0..9 : DigitChars[d + 1] = c

IsDigit(c) == \E d \in 0..9 : DigitChars[d + 1] = c

RECURSIVE Number(_)
\* the number a sequence of digits writes
Number(digits) ==
    IF digits = <<>> THEN 0
    ELSE 10 * Number(SubSeq(digits, 1, Len(digits) - 1)) + DigitValue(digits[Len(digits)])

\* <hemisphere><DDD>.<MM>.<SS.SSS>
WellFormedToken(t) ==
    /\ Len(t) = 14
    /\ t[1] \in {"N", "S", "E", "W"}
    /\ t[5] = "." /\ t[8] = "." /\ t[11] = "."
    /\ \A k \in {2, 3, 4, 6, 7, 9, 10, 12, 13, 14} : IsDigit(t[k])

TokenDegrees(t) == Number(SubSeq(t, 2, 4))

TokenMinutes(t) == Number(SubSeq(t, 6, 7))

\* the printed seconds, in thousandths
TokenThousandths(t) == 1000 * Number(SubSeq(t, 9, 10)) + Number(SubSeq(t, 12, 14))

DmsTokens == {dms_out.es, dms_out.filters}

HemisphereOf(value, is_latitude) ==
    IF is_latitude THEN (IF value >= 0 THEN "N" ELSE "S")
    ELSE (IF value >= 0 THEN "E" ELSE "W")

(***************************************************************************)
(* C4, as claimed: for every input in [-180, 180] the token has degrees in  *)
(* 0..180, minutes in 0..59, printed seconds below 60.000 and the           *)
(* hemisphere letter of the sign.                                          *)
(***************************************************************************)
C4_DmsFieldsInRange ==
    pc = "dms_done" =>
        \A t \in DmsTokens :
            /\ WellFormedToken(t)
            /\ t[1] = HemisphereOf(dms_in.value, dms_in.is_latitude)
            /\ TokenDegrees(t) \in 0..180
            /\ TokenMinutes(t) \in 0..59
            /\ TokenThousandths(t) < 60000

C11_ApronArea ==
    \A conv \in Convs :
        /\ CountKind(Areas(conv), S_apron)
              = Cardinality({k \in ProcessedWays :
                    Resolvable(elements[k]) /\ HasTag(elements[k], "aeroway", S_apron)})
        /\ CountKind(Lines(conv), S_apron) = 0
        /\ (DoneOneWay /\ Resolvable(TheWay) /\ HasTag(TheWay, "aeroway", S_apron))
           => /\ Lines(conv) = <<>>
              /\ Len(Areas(conv)) = 1
              /\ Areas(conv)[1].type = S_apron
              /\ Areas(conv)[1].name = IF NameOf(TheWay) = <<>> THEN S_apron ELSE NameOf(TheWay)
              /\ Len(Areas(conv)[1].coords)
                    = Cardinality({k \in DOMAIN TheWay.nodes : TheWay.nodes[k] \in NodeIds})

\* an open apron way, first and last node ids different: one apron area
C11_Witness ==
    /\ DoneOneWay
    /\ HasTag(TheWay, "aeroway", S_apron)
    /\ TheWay.nodes = <<1, 2, 3>>
    /\ ~ClosedByIds(TheWay)
    /\ \A conv \in Convs :
          /\ Lines(conv) = <<>>
          /\ Len(Areas(conv)) = 1
          /\ Areas(conv)[1].type = S_apron
          /\ Len(Areas(conv)[1].coords) = 3

(***************************************************************************)
(* C12: once the first pass is over, the node index of each converter holds *)
(* every node element of the input under its identifier, tagged or not,     *)
(* with that element's latitude and longitude, and holds nothing else; no   *)
(* step of the second pass or after it changes the index. Hence a lone way  *)
(* to which a rule applies gets the coordinates of its resolvable node ids, *)
(* in order, whether the node elements stand before or after it in the      *)
(* list.                                                                    *)
(***************************************************************************)
\* the node element an identifier is indexed to: the last one carrying it
LastNodeWithId(id) ==
    elements[CHOOSE k \in NodeIdx :
                 /\ elements[k].id = id
                 /\ \A j \in NodeIdx : elements[j].id = id => j <= k]

\* the (lon, lat) of the way's node ids that are ids of node elements, in order
ExpectedCoords(w) ==
    LET found == SelectSeq(w.nodes, LAMBDA n : n \in NodeIds)
    IN  [k \in 1..Len(found) |->
            <<LastNodeWithId(found[k]).lon, LastNodeWithId(found[k]).lat>>]

IndexComplete(conv) ==
    /\ DOMAIN nodes[conv] = NodeIds
    /\ \A id \in NodeIds :
          nodes[conv][id] = [lat |-> LastNodeWithId(id).lat, lon |-> LastNodeWithId(id).lon]

FirstPassOver == pc \in {"second_pass", "done"}

C12_NodeIndex ==
    /\ [](FirstPassOver => \A conv \in Convs : IndexComplete(conv))
    /\ [][FirstPassOver => nodes' = nodes]_vars
    /\ [](\A conv \in Convs :
             (DoneOneWay /\ Resolvable(TheWay) /\ FirstKind(TheWay) # <<>>)
             => /\ Len(Lines(conv) \o Areas(conv)) = 1
                /\ (Lines(conv) \o Areas(conv))[1].coords = ExpectedCoords(TheWay))

\* the way stands before the untagged nodes it refers to, and has all three coordinates
C12_Witness ==
    /\ DoneOneWay
    /\ WayIdx = {1}
    /\ NodeIdx = {2, 3, 4}
    /\ \A k \in NodeIdx : elements[k].tags = NoTags
    /\ TheWay.nodes = <<1, 2, 3>>
    /\ \A conv \in Convs :
          /\ DOMAIN nodes[conv] = {1, 2, 3}
          /\ Len(Lines(conv)) = 1
          /\ Lines(conv)[1].coords = <<<<20, 10>>, <<21, 11>>, <<20, 10>>>>

(***************************************************************************)
(* C13: in the FeatureSet, while it is built and when it is returned, each  *)
(* line and each area carries at least one coordinate pair, every one of    *)
(* them the (lon, lat) of a node element, and each label carries the one    *)
(* (lat, lon) of a node element; a lone way none of whose node ids resolves *)
(* produces no line and no area, whatever its tags.                         *)
(***************************************************************************)
NodePositions == {<<elements[k].lon, elements[k].lat>> : k \in NodeIdx}

C13_Geometry ==
    \A conv \in Convs :
        /\ \A k \in DOMAIN (Lines(conv) \o Areas(conv)) :
              LET f == (Lines(conv) \o Areas(conv))[k]
              IN  /\ Len(f.coords) >= 1
                  /\ \A c \in DOMAIN f.coords : f.coords[c] \in NodePositions
        /\ \A k \in DOMAIN Labels(conv) :
              /\ {"lat", "lon"} \subseteq DOMAIN Labels(conv)[k]
              /\ <<Labels(conv)[k].lon, Labels(conv)[k].lat>> \in NodePositions
        /\ (DoneOneWay /\ ~Resolvable(TheWay))
              => Lines(conv) = <<>> /\ Areas(conv) = <<>>

\* an apron way whose node ids 4 and 5 are ids of no node element: no feature
C13_Witness ==
    /\ DoneOneWay
    /\ TheWay.nodes = <<4, 5>>
    /\ HasTag(TheWay, "aeroway", S_apron)
    /\ NodeIds = {1, 2, 3}
    /\ \A conv \in Convs : Lines(conv) = <<>> /\ Areas(conv) = <<>>

(***************************************************************************)
(* C14: normalize_hangar_name returns a text of the same length in which    *)
(* every occurrence of Hanger, hanger, Hagner, hagner reads Hangar, hangar, *)
(* Hangar, hangar and every other character is as it was; a text with none  *)
(* of the four comes back unchanged. "Hanger 3" gives "Hangar 3", "" gives  *)
(* "", and "HANGER" stays "HANGER".                                         *)
(***************************************************************************)
Misspellings == <<S_Hanger, S_hanger, S_Hagner, S_hagner>>

Corrections == <<S_Hangar, S_hangar, S_Hangar, S_hangar>>

\* the word w stands in s from position p on
OccursAt(s, p, w) == p + Len(w) - 1 <= Len(s) /\ SubSeq(s, p, p + Len(w) - 1) = w

\* the occurrences of a misspelling that cover position k of s
Covering(s, k) ==
    {<<m, p>> \in (1..4) \X (1..Len(s)) :
        p <= k /\ k < p + 6 /\ OccursAt(s, p, Misspellings[m])}

C14_Normalize ==
    pc = "norm_done" =>
        /\ Len(norm_out) = Len(norm_in)
        /\ \A k \in 1..Len(norm_in) :
              IF Covering(norm_in, k) = {}
              THEN norm_out[k] = norm_in[k]
              ELSE \A o \in Covering(norm_in, k) : norm_out[k] = Corrections[o[1]][k - o[2] + 1]
        /\ (\A k \in 1..Len(norm_in) : Covering(norm_in, k) = {}) => norm_out = norm_in
        /\ norm_in = S_Hanger3 => norm_out = S_Hangar3
        /\ norm_in = <<>> => norm_out = <<>>
        /\ norm_in = <<"H", "A", "N", "G", "E", "R">>
              => norm_out = <<"H", "A", "N", "G", "E", "R">>

C14_Witness ==
    /\ pc = "norm_done"
    /\ norm_in = S_Hanger3
    /\ norm_out = S_Hangar3

(***************************************************************************)
(* C15, as claimed: the segments write_lines_file emits for a line feature  *)
(* are those of its coordinate sequence with consecutive duplicates         *)
(* removed: one segment per consecutive pair of the collapsed sequence, so  *)
(* that [(1,1),(1,1),(2,2)] gives the one segment from (1,1) to (2,2).      *)
(***************************************************************************)
RECURSIVE Collapsed(_)
\* a coordinate sequence without its consecutive duplicates
Collapsed(coords) ==
    IF Len(coords) <= 1 THEN coords
    ELSE LET front == Collapsed(SubSeq(coords, 1, Len(coords) - 1))
         IN  IF front[Len(front)] = coords[Len(coords)] THEN front
             ELSE Append(front, coords[Len(coords)])

\* the end points, as written, of the segments of a coordinate sequence
SegmentEnds(coords) ==
    [k \in 1..(Len(coords) - 1) |->
        <<decimal_to_dms(coords[k][2], TRUE), decimal_to_dms(coords[k][1], FALSE),
          decimal_to_dms(coords[k + 1][2], TRUE), decimal_to_dms(coords[k + 1][1], FALSE)>>]

RECURSIVE SegmentsOfCollapsed(_)
SegmentsOfCollapsed(fs) ==
    IF fs = <<>> THEN <<>>
    ELSE SegmentEnds(Collapsed(Head(fs).coords)) \o SegmentsOfCollapsed(Tail(fs))

\* the end points of the segment lines of the file written, in order
WrittenSegments ==
    LET segs == SelectSeq(lines_file, LAMBDA l : ~l.comment)
    IN  [k \in 1..Len(segs) |-> SubSeq(segs[k].parts, 1, 4)]

C15_CollapsedBeforeSegments ==
    pc \in {"lines_written", "topsky_done"} =>
        WrittenSegments = SegmentsOfCollapsed(line_features)

(***************************************************************************)
(* C16: sorting is idempotent. The three sorts applied to the FeatureSet    *)
(* parse_osm_data returned, which is sorted, leave lines, areas and labels  *)
(* of both converters unchanged, element for element, also where two        *)
(* entries have the same key.                                               *)
(***************************************************************************)
C16_SortIdempotent == [][SortAgain => features' = features]_vars

\* sorted twice: two lines with the same key (1, "A") and different coordinates,
\* in the order the ways had in the input
C16_Witness ==
    /\ pc = "sorted_again"
    /\ Len(elements) = 4
    /\ elements[3].type = "way" /\ elements[3].id = 9
    /\ elements[4].type = "way" /\ elements[4].id = 8
    /\ \A conv \in Convs :
          /\ Len(Lines(conv)) = 2
          /\ Lines(conv)[1].name = Lines(conv)[2].name
          /\ Lines(conv)[1].sort_order = Lines(conv)[2].sort_order
          /\ Lines(conv)[1].coords = <<<<21, 11>>, <<20, 10>>>>
          /\ Lines(conv)[2].coords = <<<<20, 10>>, <<21, 11>>>>

(***************************************************************************)
(* C17: an input holding one way, open, tagged aeroway=runway only, with 2  *)
(* node ids both of which are node elements, one node tagged aeroway=gate,  *)
(* ref=A1, and otherwise untagged nodes, in any order, yields exactly one   *)
(* line, of kind runway with the 2 coordinates, exactly one label, of text  *)
(* "A1", and zero areas, in both converters.                                *)
(***************************************************************************)
GateA1Tags == ("aeroway" :> S_gate) @@ ("ref" :> S_A1)

RunwayGateScenario ==
    /\ Cardinality(WayIdx) = 1
    /\ TheWay.tags = ("aeroway" :> S_runway)
    /\ Len(TheWay.nodes) = 2
    /\ TheWay.nodes[1] # TheWay.nodes[2]
    /\ \A k \in 1..2 : TheWay.nodes[k] \in NodeIds
    /\ Cardinality({k \in NodeIdx : elements[k].tags = GateA1Tags}) = 1
    /\ \A k \in NodeIdx : elements[k].tags \in {GateA1Tags, NoTags}

C17_RunwayAndGate ==
    (pc = "done" /\ RunwayGateScenario)
    => \A conv \in Convs :
          /\ Len(Lines(conv)) = 1
          /\ Lines(conv)[1].type = S_runway
          /\ Len(Lines(conv)[1].coords) = 2
          /\ Len(Labels(conv)) = 1
          /\ Labels(conv)[1].ref = S_A1
          /\ Labels(conv)[1].type = S_gate
          /\ Areas(conv) = <<>>

\* the gate first, the way before its two nodes
C17_Witness ==
    /\ pc = "done"
    /\ RunwayGateScenario
    /\ Len(elements) = 4
    /\ elements[1].tags = GateA1Tags
    /\ WayIdx = {2}
    /\ \A conv \in Convs :
          /\ Len(Lines(conv)) = 1 /\ Lines(conv)[1].type = S_runway
          /\ Len(Labels(conv)) = 1 /\ Labels(conv)[1].ref = S_A1
          /\ Areas(conv) = <<>>

(***************************************************************************)
(* C18, as claimed: parse_osm_data ends with an error, and returns no       *)
(* FeatureSet, exactly when some element of the input lacks its identifier  *)
(* or, being a node, its latitude or its longitude.                         *)
(***************************************************************************)
\* the element lacks a minimal required field
LacksRequiredField(e) ==
    \/ "id" \notin DOMAIN e
    \/ /\ "type" \in DOMAIN e
       /\ e.type = "node"
       /\ ~({"lat", "lon"} \subseteq DOMAIN e)

C18_FailsIffFieldMissing ==
    pc \in {"done", "raised"} =>
        (pc = "raised" <=> \E k \in DOMAIN elements : LacksRequiredField(elements[k]))

(***************************************************************************)
(* Vocabulary of the properties of main                                    *)
(***************************************************************************)
Printed(m) == \E k \in DOMAIN printed : printed[k] = m

MainEnded == pc = "exited"

(***************************************************************************)
(* C19, as claimed: in each of the three converters, when the fetch         *)
(* succeeds and returns no elements, the run prints guidance for the user,  *)
(* prints no traceback, and does not report a created output.               *)
(***************************************************************************)
C19_EmptyResultGuidance ==
    (MainEnded /\ fetch = "ok" /\ elements = <<>>)
    => /\ Printed("guidance")
       /\ ~Printed("traceback")
       /\ ~Printed("success")

(***************************************************************************)
(* C20: in each of the three converters a failed fetch (no connection, a    *)
(* timeout, an error status) ends the run with a diagnostic printed, a      *)
(* failure status, no success message, and no output file opened; and at    *)
(* any time an output file has been opened only if the fetch succeeded and  *)
(* the conversion has returned.                                             *)
(***************************************************************************)
C20_FailedFetchFatal ==
    /\ (MainEnded /\ fetch # "ok")
       => /\ exit_status = "1"
          /\ Printed("error_querying") \/ Printed("error")
          /\ ~Printed("success")
    /\ fetch # "ok" => files = {} /\ ~converted
    /\ files # {} => fetch = "ok" /\ converted

\* osm_to_kml after an error status: the diagnostic, status 1, no file
C20_Witness ==
    /\ MainEnded
    /\ converter = "kml"
    /\ fetch = "http_error"
    /\ Printed("error")
    /\ exit_status = "1"
    /\ files = {}

(***************************************************************************)
(* C21, as claimed: the FeatureSet does not depend on the order of the      *)
(* input. parse_osm_data run on any permutation of the element list returns *)
(* the same lines, areas and labels, in both converters.                    *)
(***************************************************************************)
\* the element list in the order a permutation p of its positions gives
Permuted(p) == [k \in DOMAIN elements |-> elements[p[k]]]

C21_OrderIndependent ==
    pc = "done" =>
        \A p \in Permutations(DOMAIN elements) :
            /\ parse_osm_data_gng(Permuted(p)) = features.gng
            /\ parse_osm_data_es(Permuted(p)) = features.es

\* run as a step machine and as a function, parse_osm_data returns the same
ParseAgrees ==
    pc = "done" =>
        /\ parse_osm_data_gng(elements) = features.gng
        /\ parse_osm_data_es(elements) = features.es

(***************************************************************************)
(* C22: the coordinate sequence of a way is exactly the (lon, lat) pairs of *)
(* its referenced node ids that are ids of node elements, in the way's      *)
(* order and with repetitions kept; an id of no node element is left out    *)
(* and changes nothing for the other vertices. Every line and every area    *)
(* has these coordinates of a way processed, and the feature of a lone way  *)
(* to which a rule applies has the way's; ids [4,1,2,5] with node elements  *)
(* 1, 2, 3 give the two pairs of nodes 1 and 2, ids [1,2,3,1] give four     *)
(* pairs, the first repeated at the end.                                    *)
(***************************************************************************)
\* the positions of the way's node list whose id is the id of a node element
PresentPositions(w) == {k \in DOMAIN w.nodes : w.nodes[k] \in NodeIds}

\* the j-th of them, counted from the start of the list
NthPresent(w, j) ==
    CHOOSE k \in PresentPositions(w) :
        Cardinality({q \in PresentPositions(w) : q < k}) = j - 1

\* the coordinate sequence the claim gives the way: one pair per present position
ClaimedCoords(w) ==
    [j \in 1..Cardinality(PresentPositions(w)) |->
        LET node == LastNodeWithId(w.nodes[NthPresent(w, j)])
        IN  <<node.lon, node.lat>>]

C22_WayCoordinates ==
    \A conv \in Convs :
        LET fs == Lines(conv) \o Areas(conv)
            claimed == [k \in ProcessedWays |-> ClaimedCoords(elements[k])]
        IN  /\ \A f \in DOMAIN fs :
                  \E k \in ProcessedWays : fs[f].coords = claimed[k]
            /\ (DoneOneWay /\ Resolvable(TheWay) /\ FirstKind(TheWay) # <<>>)
               => /\ Len(fs) = 1
                  /\ fs[1].coords = ClaimedCoords(TheWay)
                  /\ Len(fs[1].coords) = Cardinality(PresentPositions(TheWay))
            /\ (DoneOneWay /\ FirstKind(TheWay) # <<>> /\ NodeIds = {1, 2, 3})
               => /\ TheWay.nodes = <<4, 1, 2, 5>>
                     => Len(fs) = 1 /\ fs[1].coords = <<<<20, 10>>, <<21, 11>>>>
                  /\ TheWay.nodes = <<1, 2, 3, 1>>
                     => /\ Len(fs) = 1
                        /\ fs[1].coords = <<<<20, 10>>, <<21, 11>>, <<20, 10>>, <<20, 10>>>>

\* ids [4,1,2,5], the first and the last of no node element: the pairs of 1 and 2
C22_Witness ==
    /\ DoneOneWay
    /\ TheWay.nodes = <<4, 1, 2, 5>>
    /\ HasTag(TheWay, "aeroway", S_taxiway)
    /\ NodeIds = {1, 2, 3}
    /\ \A conv \in Convs :
          /\ Len(Lines(conv)) = 1
          /\ Lines(conv)[1].coords = <<<<20, 10>>, <<21, 11>>>>

(***************************************************************************)
(* C23, as claimed: when the file convert_to_topsky reads is a chain of     *)
(* connected segments P0-P1, P1-P2, ..., P(n-1)-Pn, each segment ending     *)
(* where the next starts, the COORD records it writes are the vertices      *)
(* P0 ... Pn in order, each once: n+1 records for n segments.               *)
(***************************************************************************)
\* the segment lines of the file written by write_lines_file
SegmentLines == SelectSeq(lines_file, LAMBDA l : ~l.comment)

\* the file is a chain: at least one segment, none of length zero, each ending
\* where the next starts
ConnectedChain ==
    /\ SegmentLines # <<>>
    /\ \A k \in DOMAIN SegmentLines :
          SubSeq(SegmentLines[k].parts, 1, 2) # SubSeq(SegmentLines[k].parts, 3, 4)
    /\ \A k \in 1..(Len(SegmentLines) - 1) :
          SubSeq(SegmentLines[k].parts, 3, 4) = SubSeq(SegmentLines[k + 1].parts, 1, 2)

\* P0 ... Pn: the start of the first segment, then the end of every segment
ChainVertices ==
    <<SubSeq(SegmentLines[1].parts, 1, 2)>>
        \o [k \in DOMAIN SegmentLines |-> SubSeq(SegmentLines[k].parts, 3, 4)]

\* the (lat, lon) of the COORD records of the file convert_to_topsky wrote
CoordRecords ==
    LET recs == SelectSeq(topsky_file, LAMBDA r : r.kind = "COORD")
    IN  [k \in DOMAIN recs |-> <<recs[k].lat, recs[k].lon>>]

C23_ChainVertices ==
    (pc = "topsky_done" /\ ConnectedChain) => CoordRecords = ChainVertices

(***************************************************************************)
(* C24: the file convert_to_topsky writes is a sequence of COORD records    *)
(* followed by exactly one COORDPOLY record, its last line, which names the *)
(* color and the polygon type of the call, also when the input has no       *)
(* coordinate line; blank lines and lines starting with ';' give no record; *)
(* no two consecutive COORD records are identical. The COORD records are    *)
(* the first two tokens of the lines of two tokens or more, in order,       *)
(* without consecutive duplicates.                                          *)
(***************************************************************************)
\* the first two tokens of the input lines that are neither blank nor comments and
\* have two tokens or more
LineStarts ==
    LET ls == SelectSeq(lines_file, LAMBDA l : ~l.comment /\ Len(l.parts) >= 2)
    IN  [k \in DOMAIN ls |-> <<ls[k].parts[1], ls[k].parts[2]>>]

C24_TopskyFormat ==
    pc = "topsky_done" =>
        LET n == Len(topsky_file)
        IN  /\ n >= 1
            /\ topsky_file[n] = [kind |-> "COORDPOLY", color |-> topsky_args.color,
                                 type |-> topsky_args.polygon_type]
            /\ \A k \in 1..(n - 1) : topsky_file[k].kind = "COORD"
            /\ \A k \in 1..(n - 2) : topsky_file[k] # topsky_file[k + 1]
            /\ CoordRecords = Collapsed(LineStarts)
            /\ LineStarts = <<>> => n = 1
            /\ n - 1 <= Cardinality({k \in DOMAIN lines_file :
                            ~lines_file[k].comment /\ lines_file[k] # BlankLine})

\* a comment, then two segments from the same point to different ends: one COORD
C24_Witness ==
    /\ pc = "topsky_done"
    /\ Len(lines_file) = 3
    /\ lines_file[1].comment
    /\ lines_file[2] = SegmentLine(P1, P2, "COLOR_TaxiwayYellow")
    /\ lines_file[3] = SegmentLine(P1, P3, "COLOR_TaxiwayYellow")
    /\ topsky_args = [color |-> "AirspaceB", polygon_type |-> "Danger"]
    /\ topsky_file = <<[kind |-> "COORD", lat |-> P1[1], lon |-> P1[2]],
                       [kind |-> "COORDPOLY", color |-> "AirspaceB", type |-> "Danger"]>>

(***************************************************************************)
(* C25: write_lines_file writes, for each line feature in the order of the  *)
(* FeatureSet, with n coordinates: nothing when n < 2, and otherwise one    *)
(* comment line with the feature's name followed at once by n-1 segment     *)
(* lines, segment k made of the DMS pair of coordinate k, the DMS pair of   *)
(* coordinate k+1 and the feature's colour token, so that each segment ends *)
(* where the next one starts. The file holds nothing else.                  *)
(***************************************************************************)
\* the number of lines a feature of n coordinates takes in the file
BlockLen(n) == IF n >= 2 THEN n ELSE 0

RECURSIVE BlockStart(_)
\* the number of lines the file holds before the block of feature j
BlockStart(j) ==
    IF j = 1 THEN 0
    ELSE BlockStart(j - 1) + BlockLen(Len(line_features[j - 1].coords))

\* the DMS pair (lat, lon) of a coordinate (lon, lat)
DmsPair(c) == <<decimal_to_dms(c[2], TRUE), decimal_to_dms(c[1], FALSE)>>

C25_SegmentLines ==
    pc \in {"lines_written", "topsky_done"} =>
        /\ Len(lines_file) = BlockStart(Len(line_features) + 1)
        /\ \A j \in DOMAIN line_features :
              LET f == line_features[j]
                  n == Len(f.coords)
                  b == BlockStart(j)
              IN  n >= 2 =>
                     /\ lines_file[b + 1].comment
                     /\ lines_file[b + 1].text = f.name
                     /\ \A k \in 1..(n - 1) :
                           /\ ~lines_file[b + 1 + k].comment
                           /\ lines_file[b + 1 + k].parts
                                 = DmsPair(f.coords[k]) \o DmsPair(f.coords[k + 1])
                                       \o <<f.color>>
                           /\ \A t \in 1..4 : WellFormedToken(lines_file[b + 1 + k].parts[t])
                     /\ \A k \in 1..(n - 2) :
                           SubSeq(lines_file[b + 1 + k].parts, 3, 4)
                               = SubSeq(lines_file[b + 2 + k].parts, 1, 2)
        /\ Len(SelectSeq(lines_file, LAMBDA l : l.comment))
              = Cardinality({j \in DOMAIN line_features : Len(line_features[j].coords) >= 2})

\* a feature of one coordinate, which writes nothing, before one of two: the
\* file is the comment of the second and its one segment
C25_Witness ==
    /\ pc = "lines_written"
    /\ Len(line_features) = 2
    /\ Len(line_features[1].coords) = 1
    /\ Len(lines_file) = 2
    /\ lines_file[1] = CommentLine(S_B)
    /\ lines_file[2].parts = P1 \o P2 \o <<"COLOR_TaxiwayYellow">>

(***************************************************************************)
(* C26: the two parse_osm_data are equivalent. On every element list, and   *)
(* at every step of the two runs side by side, the GNG converter and the    *)
(* EuroScope converter hold the same lines, the same areas and the same     *)
(* labels (kinds, names, coordinates, sort priorities, order), the colour   *)
(* tokens differing by the prefix COLOR_ only, and the same node index.     *)
(***************************************************************************)
\* the colour token of the EuroScope converter for one of the GNG converter
EsColor(color) ==
    CASE color = "RunwayBorder" -> "COLOR_RunwayBorder"
      [] color = "TaxiwayYellow" -> "COLOR_TaxiwayYellow"
      [] color = "TaxiwayGrey" -> "COLOR_TaxiwayGrey"
      [] color = "ApronSurface" -> "COLOR_ApronSurface"
      [] color = "Building" -> "COLOR_Building"
      [] color = "GrasSurface" -> "COLOR_GrasSurface"

\* a sequence of features of the GNG converter with the colours respelled
WithEsColors(fs) == [k \in DOMAIN fs |-> [fs[k] EXCEPT !.color = EsColor(@)]]

C26_ConvertersAgree ==
    /\ WithEsColors(features.gng.lines) = features.es.lines
    /\ WithEsColors(features.gng.areas) = features.es.areas
    /\ features.gng.points = features.es.labels
    /\ nodes.gng = nodes.es

\* a list that gives a line, an area and a label, returned by both
C26_Witness ==
    /\ pc = "done"
    /\ Len(features.gng.lines) = 1 /\ Len(features.es.lines) = 1
    /\ features.gng.lines[1].color = "RunwayBorder"
    /\ features.es.lines[1].color = "COLOR_RunwayBorder"
    /\ Len(features.gng.areas) = 1 /\ Len(features.es.areas) = 1
    /\ Len(features.gng.points) = 1 /\ Len(features.es.labels) = 1

(***************************************************************************)
(* C27: each input element contributes at most one feature, and the three   *)
(* sequences are typed by kind. At every step lines and areas together      *)
(* hold no more features than ways processed and labels no more than nodes  *)
(* processed, so that the features never outnumber the input elements;      *)
(* lines hold runway, taxiway and taxilane features only, areas apron,      *)
(* hangar, building, wood, grass and water features only, labels gate,      *)
(* parking_position and stand features only; and no feature exists before   *)
(* the second pass.                                                         *)
(***************************************************************************)
AreaKinds == {S_apron, S_hangar, S_building, S_wood, S_grass, S_water}

\* the nodes the second pass has gone through so far
ProcessedNodes == {k \in NodeIdx : pc = "done" \/ (pc = "second_pass" /\ k < i)}

C27_OneFeaturePerElement ==
    \A conv \in Convs :
        /\ Len(Lines(conv)) + Len(Areas(conv)) <= Cardinality(ProcessedWays)
        /\ Len(Labels(conv)) <= Cardinality(ProcessedNodes)
        /\ Len(Lines(conv)) + Len(Areas(conv)) + Len(Labels(conv)) <= Len(elements)
        /\ \A k \in DOMAIN Lines(conv) : Lines(conv)[k].type \in LineKinds
        /\ \A k \in DOMAIN Areas(conv) : Areas(conv)[k].type \in AreaKinds
        /\ \A k \in DOMAIN Labels(conv) : Labels(conv)[k].type \in LabelKinds
        /\ LineKinds \cap AreaKinds = {} /\ LineKinds \cap LabelKinds = {}
        /\ AreaKinds \cap LabelKinds = {}
        /\ pc = "first_pass"
              => Lines(conv) = <<>> /\ Areas(conv) = <<>> /\ Labels(conv) = <<>>

\* three elements, each with its one feature: a label node, a line way, an area way
C27_Witness ==
    /\ pc = "done"
    /\ Len(elements) = 3
    /\ Cardinality(NodeIdx) = 1
    /\ \A conv \in Convs :
          /\ Len(Lines(conv)) = 1
          /\ Len(Areas(conv)) = 1
          /\ Areas(conv)[1].type = S_hangar
          /\ Len(Labels(conv)) = 1
          /\ Labels(conv)[1].type = S_stand

(***************************************************************************)
(* C28: batch_process.main calls process_airport once for each configured   *)
(* airport, in list order, and goes on after a failure: at any time the     *)
(* airports dealt with are a prefix of the list, success_count plus the     *)
(* length of failed is their number, and failed holds exactly the ICAO      *)
(* codes among them whose converter subprocess exited non-zero, in the      *)
(* order processed; main ends only when every airport has been dealt with,  *)
(* and then success_count + len(failed) is the number of airports.          *)
(***************************************************************************)
RECURSIVE NonZeroExits(_)
\* the ICAO codes of the first n airports whose subprocess exited non-zero, in order
NonZeroExits(n) ==
    IF n = 0 THEN <<>>
    ELSE IF exits[n] # 0 THEN Append(NonZeroExits(n - 1), AIRPORTS[n])
    ELSE NonZeroExits(n - 1)

C29_NamesNonEmpty ==
    \A conv \in Convs :
        LET fs == Lines(conv) \o Areas(conv)
        IN  /\ \A k \in DOMAIN fs :
                  /\ fs[k].name # <<>>
                  /\ fs[k].type = S_wood => fs[k].name = S_woods
                  /\ fs[k].type = S_grass => fs[k].name = S_grass
                  /\ fs[k].type = S_water => fs[k].name = S_water
            /\ (DoneOneWay /\ Resolvable(TheWay) /\ FirstKind(TheWay) # <<>>)
               => LET kind == FirstKind(TheWay)
                      given == NameOf(TheWay)
                  IN  /\ Len(fs) = 1
                      /\ (kind \in LineKinds \cup {S_apron})
                            => fs[1].name = (IF given = <<>> THEN kind ELSE given)
                      /\ (kind = S_hangar /\ given = <<>>) => fs[1].name = S_Hangar
                      /\ (kind = S_building /\ given = <<>>)
                            => fs[1].name = TheWay.tags["building"]
                      /\ (kind \in {S_hangar, S_building} /\ given # <<>>)
                            => Len(fs[1].name) = Len(given)

\* a way tagged aeroway=hangar with an empty name tag and no ref: "Hangar"
C29_Witness ==
    /\ DoneOneWay
    /\ Resolvable(TheWay)
    /\ HasTag(TheWay, "aeroway", S_hangar)
    /\ NameOf(TheWay) = <<>>
    /\ \A conv \in Convs :
          /\ Len(Areas(conv)) = 1
          /\ Areas(conv)[1].type = S_hangar
          /\ Areas(conv)[1].name = S_Hangar

(***************************************************************************)
(* C30: normalize_hangar_name is idempotent. Called on the text it          *)
(* returned it returns that text again, and the text it returns holds none  *)
(* of Hanger, hanger, Hagner, hagner at any position: no replacement makes  *)
(* a new occurrence of a misspelling.                                       *)
(***************************************************************************)
\* one of the four misspellings stands somewhere in s
HasMisspelling(s) ==
    \E m \in DOMAIN Misspellings : \E p \in 1..Len(s) : OccursAt(s, p, Misspellings[m])

C30_NormalizeIdempotent ==
    /\ [](pc \in {"norm_done", "norm_again"} => ~HasMisspelling(norm_out))
    /\ [][NormAgain => norm_out' = norm_out]_vars

\* "Hag" and "ner" joined, then "hanger": both corrected, and the same again
C30_Witness ==
    /\ pc = "norm_again"
    /\ norm_in = S_Hagner \o <<" ">> \o S_hanger
    /\ HasMisspelling(norm_in)
    /\ norm_out = S_Hangar \o <<" ">> \o S_hangar

====
